---- MODULE Spec2Model ----
(***************************************************************************)
(* Model of the Nilotic ledger core: Transaction, Block, Blockchain        *)
(* (include/core), the HTTP handlers of src/core/main.cpp and api.cpp that *)
(* drive it, the MiningEngine loop of src/core/mining.cpp, the instant     *)
(* confirmation of IMPROVED_TRANSACTION_SPEED.cpp and the reward and pool  *)
(* bookkeeping of PoRCSystem (src/core/porc.cpp).  The node starts from a  *)
(* freshly constructed Blockchain (no blockchain_data.json to load).       *)
(*                                                                         *)
(* Amounts are C++ doubles in the source.  The model holds every amount in *)
(* tenths of a coin (Coin == 10), which represents exactly all the amounts *)
(* the handlers create (1000.0, 100.0, 25.5 and the request amounts of the *)
(* input sets below).                                                      *)
(*                                                                         *)
(* SHA-256 is modelled as a perfect hash: a digest is the tuple of the     *)
(* hashed fields, so two digests are equal iff the hashed inputs are.  The *)
(* number of leading '0' hex characters of a block digest is given by the  *)
(* deterministic stand-in LeadingZeros.                                    *)
(***************************************************************************)
EXTENDS Integers, Sequences, FiniteSets, TLC

VARIABLES
    chain,                \* Blockchain::chain
    pendingTransactions,  \* Blockchain::pendingTransactions
    difficulty,           \* Blockchain::difficulty
    miningReward,         \* Blockchain::miningReward
    balances,             \* Blockchain::balances
    contracts,            \* Blockchain::contracts
    validators,           \* Blockchain::validators
    clock,                \* time(nullptr), in seconds
    nextUid,              \* identity of the next Transaction object the pool admits
    ret,                  \* the last call that returned a value, and the value
    posBlock,             \* /validate handler: the block between validateBlockPoS and addBlock
    engPc,                \* MiningEngine::miningLoop position
    engIndex,             \* MiningEngine::mineBlock local blockIndex
    engBlock,             \* MiningEngine::miningLoop local block
    queue,                \* MiningEngine::pendingTransactions
    stakeCalls,           \* number of /stake requests served
    fastConfirmed,        \* the transactions InstantConfirmation has applied
    chainMutex,           \* Blockchain::chainMutex: the thread that holds it, or ""
    txMutex,              \* Blockchain::txMutex: the thread that holds it, or ""
    fast,                 \* per request thread: position in processInstantTransaction, and its tx
    imp,                  \* ImprovedMiningEngine::minePendingTransactions: position, block, calls
    mineCall,             \* Blockchain::minePendingTransactions on a thread: position, block
    config,               \* MiningEngine::config
    currentDifficulty,    \* MiningEngine::currentDifficulty
    stats,                \* MiningEngine::stats: recentBlockTimes, difficultyChanges
    isMining,             \* MiningEngine::isMining
    shouldStop,           \* MiningEngine::shouldStop
    walletStatuses,         \* PoRCSystem::walletStatuses
    totalWalletsRegistered, \* PoRCSystem::totalWalletsRegistered
    pendingContributions,   \* PoRCSystem::pendingContributions
    pools,                  \* PoRCSystem::pools
    porcStats,              \* PoRCSystem::stats
    currentBlockHeight,     \* PoRCSystem::currentBlockHeight
    rot,                    \* PoRCSystem::rotatePools: position and locals of the call in progress
    file,                 \* blockchain_data.json: <<>> when absent, else <<its JSON document>>
    crashed,              \* the node process has died
    isRunning,            \* PoRCSystem::isRunning
    workers,              \* PoRCSystem's three worker threads: the position of each in its loop
    stopPc,               \* PoRCSystem::stop: position of the call
    running,              \* main.cpp: the flag the signal handler lowers
    mainPc,               \* main: position
    apiRunning,           \* API::running
    clients,              \* detached handleClient threads that have not served their request yet
    maint,                \* blockchainMaintenanceTask: position of the thread
    startPc,              \* per caller of MiningEngine::startMining: position in the call
    stopMiningPc,         \* MiningEngine::stopMining: position of the call
    miningThread,         \* MiningEngine::miningThread: TRUE when joinable
    loops                 \* threads running MiningEngine::miningLoop

ledgerVars == <<chain, pendingTransactions, difficulty, miningReward, balances,
                contracts, validators>>
engineVars == <<engPc, engIndex, engBlock, queue>>
vars == <<chain, pendingTransactions, difficulty, miningReward, balances,
          contracts, validators, clock, nextUid, ret, posBlock,
          engPc, engIndex, engBlock, queue, stakeCalls, fastConfirmed,
          chainMutex, txMutex, fast, imp, mineCall,
          config, currentDifficulty, stats, isMining, shouldStop,
          walletStatuses, totalWalletsRegistered, pendingContributions, pools,
          porcStats, currentBlockHeight, rot, file, crashed,
          isRunning, workers, stopPc, running, mainPc, apiRunning, clients,
          maint, startPc, stopMiningPc, miningThread, loops>>
improvedVars == <<chainMutex, txMutex, fast, imp, mineCall>>
threadVars == <<startPc, stopMiningPc, miningThread, loops>>
retargetVars == <<config, currentDifficulty, stats, isMining, shouldStop, threadVars>>
porcVars == <<walletStatuses, totalWalletsRegistered, pendingContributions, pools,
              porcStats, currentBlockHeight, rot>>
shutdownVars == <<running, mainPc, apiRunning, clients, maint>>
hostVars == <<file, crashed, shutdownVars>>
runVars == <<isRunning, workers, stopPc>>
sideVars == <<improvedVars, retargetVars, porcVars, hostVars, runVars>>

----------------------------------------------------------------------------
(* Bounds of the model *)

MaxOps == 3
MaxNonce == 2

(* Program constants *)

Coin == 10
GenesisAmount == 1000 * Coin
InitialMiningReward == 100 * Coin
InitialDifficulty == 4
MAX_TRANSACTIONS_PER_BLOCK == 10
RedeemAmount == 255
StakeDivisor == 1000 * Coin
ConfigMiningReward == 100 * Coin
ConfigMaxTransactionsPerBlock == 1000
ConfigMaxBlockSize == 1048576
HashLength == 64
HalvingInterval == 210000
INSTANT_LIMIT == 10 * Coin
ImprovedTargetDifficulty == 2
ImprovedMaxTransactionsPerBlock == 50
ImprovedMiningReward == 100 * Coin
StatsWindow == 100
DAILY_REWARD_POOL == 500
BLOCKS_PER_DAY == 36000
EARLY_ADOPTER_LIMIT == 1000
POOL_SIZE == 100
POOL_ROTATION_BLOCKS == 10
MIN_BALANCE == 5
MIN_ACTIVITY == 1
RESOURCE_POINT_MB == 1
RESOURCE_POINT_TX == 10
MicroDigits == 6

(* the doubles 1.5 and 0.5 as fractions *)
BONDING_CURVE_EARLY == <<3, 2>>
MAX_REWARD_PER_BLOCK == <<1, 2>>

(* uint64_t is modelled at a width of 16 bits *)
Uint64Modulus == 65536
DefaultConfig ==
    [targetDifficulty |-> 4, maxDifficulty |-> 8, minDifficulty |-> 2,
     targetBlockTime |-> 600, enableDynamicDifficulty |-> TRUE]

(* Request inputs *)

Senders == {"GENESIS", "ALICE"}
Recipients == {"ALICE"}
Amounts == {600 * Coin}
ApiSenders == {"COINBASE", "GENESIS"}
Miners == {"MINER"}
Stakers == {"GENESIS", "ALICE"}
StakeAmounts == {600 * Coin, (-10) * Coin}
Signatures == {"sig"}
Handlers == {"h1", "h2"}
Callers == {"c1", "c2"}
SmallAmounts == {5 * Coin}
SmallRecipients == {"ALICE", "GENESIS"}
PoRCWallets == {"W1", "W2"}
Contributions ==
    [walletAddress : PoRCWallets, taskId : {"task_1"}, bandwidthUsed : {0, 1},
     transactionsRelayed : {0, 5, 25}]
Configs == {DefaultConfig, [DefaultConfig EXCEPT !.targetDifficulty = 1]}
MiningTimes == {100, 1000000}
LoopAttempts == {0}
Attempts == {0, 1}
ImprovedAmounts == {50 * Coin, 5 * Coin, (-5) * Coin}
Workers == {"taskAssignment", "rewardDistribution", "poolRotation"}
RunWallets == {"W1"}
RunContributions ==
    {c \in Contributions : /\ c.walletAddress \in RunWallets
                            /\ c.transactionsRelayed \in {0, 5}
                            /\ (c.bandwidthUsed = 0 \/ c.transactionsRelayed = 0)}

----------------------------------------------------------------------------
(* Transaction *)

EmptyMap == [x \in {} |-> 0]

Min(a, b) == IF a <= b THEN a ELSE b

TxCalculateHash(t) ==
    <<t.sender, t.recipient, t.amount, t.timestamp, t.contractCode, t.isOffline>>

NewTransaction(s, r, a, offline, ts, id) ==
    [sender |-> s, recipient |-> r, amount |-> a, timestamp |-> ts,
     signature |-> FALSE, isOffline |-> offline, contractCode |-> "", uid |-> id]

signTransaction(t) ==
    IF t.sender = "COINBASE" THEN t ELSE [t EXCEPT !.signature = TRUE]

verifySignature(t) ==
    IF t.sender = "COINBASE" THEN TRUE ELSE t.signature

isValid(t) ==
    IF t.sender = "" \/ t.amount < 0 THEN FALSE
    ELSE IF ~t.isOffline /\ t.recipient = "" THEN FALSE
    ELSE IF t.sender = "COINBASE" THEN TRUE
    ELSE verifySignature(t)

----------------------------------------------------------------------------
(* Block *)

ZeroPattern == <<4, 0, 2>>

LeadingZeros(h) == ZeroPattern[((h[1] + 2 * h[3] + h[5]) % Len(ZeroPattern)) + 1]

HasPrefix(h, d) == LeadingZeros(h) >= d

BlockCalculateHash(b) ==
    <<b.index, b.previousHash, b.timestamp, b.merkleRoot, b.nonce, b.validator>>

NewBlock(idx, prev, ts) ==
    LET b == [index |-> idx, previousHash |-> prev, timestamp |-> ts,
              transactions |-> <<>>, merkleRoot |-> <<>>, nonce |-> 0,
              hash |-> <<>>, validator |-> "", signature |-> ""]
    IN [b EXCEPT !.hash = BlockCalculateHash(b)]

RECURSIVE MerkleReduce(_)
MerkleReduce(hs) ==
    IF Len(hs) <= 1 THEN hs[1]
    ELSE LET padded == IF Len(hs) % 2 # 0 THEN Append(hs, hs[Len(hs)]) ELSE hs
             paired == [i \in 1..(Len(padded) \div 2) |->
                            <<padded[2 * i - 1], padded[2 * i]>>]
         IN MerkleReduce(paired)

calculateMerkleRoot(txs) ==
    IF txs = <<>> THEN <<"0">>
    ELSE MerkleReduce([i \in 1..Len(txs) |-> TxCalculateHash(txs[i])])

BlockAddTransaction(b, t) ==
    IF isValid(t) THEN [b EXCEPT !.transactions = Append(@, t)] ELSE b

WithNonce(b, n) ==
    LET c == [b EXCEPT !.nonce = n] IN [c EXCEPT !.hash = BlockCalculateHash(c)]

Solves(b, d, n) ==
    /\ HasPrefix(WithNonce(b, n).hash, d)
    /\ \A m \in 0..(n - 1) : ~HasPrefix(WithNonce(b, m).hash, d)

CanMine(b, d) == \E n \in 0..MaxNonce : Solves(b, d, n)

(* the nonce loop left after the first attempt *)
mineBlockFirstNonce(b, d) ==
    WithNonce([b EXCEPT !.merkleRoot = calculateMerkleRoot(b.transactions)], 0)

mineBlock(b, d) ==
    LET c == [b EXCEPT !.merkleRoot = calculateMerkleRoot(b.transactions)]
        n == CHOOSE n \in 0..MaxNonce : Solves(c, d, n)
    IN WithNonce(c, n)

----------------------------------------------------------------------------
(* Blockchain *)

GenesisBlock ==
    BlockAddTransaction(NewBlock(0, <<>>, 0),
                        NewTransaction("COINBASE", "GENESIS", GenesisAmount, FALSE, 0, 0))

getLatestBlock == chain[Len(chain)]

getBalance(a) == IF a \in DOMAIN balances THEN balances[a] ELSE 0

Credit(bal, a, x) ==
    IF a \in DOMAIN bal THEN [bal EXCEPT ![a] = @ + x] ELSE (a :> x) @@ bal

processTransaction(tx, bal, con) ==
    IF ~isValid(tx) THEN [ok |-> FALSE, balances |-> bal, contracts |-> con]
    ELSE IF tx.sender = "COINBASE"
    THEN [ok |-> TRUE, balances |-> Credit(bal, tx.recipient, tx.amount), contracts |-> con]
    ELSE IF tx.sender \notin DOMAIN bal \/ bal[tx.sender] < tx.amount
    THEN [ok |-> FALSE, balances |-> bal, contracts |-> con]
    ELSE IF tx.recipient = "CONTRACT" /\ tx.contractCode # ""
    THEN [ok |-> TRUE, balances |-> bal,
          contracts |-> (<<"CONTRACT-", TxCalculateHash(tx)>> :> tx.contractCode) @@ con]
    ELSE [ok |-> TRUE,
          balances |-> Credit(Credit(bal, tx.sender, 0 - tx.amount), tx.recipient, tx.amount),
          contracts |-> con]

RECURSIVE ProcessAll(_, _, _)
ProcessAll(txs, bal, con) ==
    IF txs = <<>> THEN [balances |-> bal, contracts |-> con]
    ELSE LET r == processTransaction(Head(txs), bal, con)
         IN ProcessAll(Tail(txs), r.balances, r.contracts)

(* addBlock without its index check *)
AddBlockAcceptsNoIndex(b) ==
    /\ b.previousHash = getLatestBlock.hash
    /\ HasPrefix(b.hash, difficulty)

(* addBlock without its proof-of-work check *)
AddBlockAcceptsNoDifficulty(b) ==
    /\ b.previousHash = getLatestBlock.hash
    /\ b.index = getLatestBlock.index + 1

AddBlockAccepts(b) ==
    /\ b.previousHash = getLatestBlock.hash
    /\ b.index = getLatestBlock.index + 1
    /\ HasPrefix(b.hash, difficulty)

addBlock(b) ==
    IF AddBlockAccepts(b)
    THEN LET r == ProcessAll(b.transactions, balances, contracts)
         IN /\ balances' = r.balances
            /\ contracts' = r.contracts
            /\ chain' = Append(chain, b)
            /\ ret' = <<"addBlock", TRUE>>
    ELSE /\ UNCHANGED <<balances, contracts, chain>>
         /\ ret' = <<"addBlock", FALSE>>

(* addTransaction without its balance check *)
AddTransactionAcceptsNoBalance(tx) == isValid(tx)

AddTransactionAccepts(tx) ==
    /\ isValid(tx)
    /\ tx.sender # "COINBASE" =>
           (tx.sender \in DOMAIN balances /\ balances[tx.sender] >= tx.amount)

addTransaction(tx) ==
    /\ pendingTransactions' = IF AddTransactionAccepts(tx)
                              THEN Append(pendingTransactions, tx)
                              ELSE pendingTransactions
    /\ ret' = <<"addTransaction", AddTransactionAccepts(tx)>>
    /\ nextUid' = IF AddTransactionAccepts(tx) THEN nextUid + 1 ELSE nextUid

Init ==
    /\ chain = <<GenesisBlock>>
    /\ pendingTransactions = <<>>
    /\ difficulty = InitialDifficulty
    /\ miningReward = InitialMiningReward
    /\ balances = ("GENESIS" :> GenesisAmount)
    /\ contracts = EmptyMap
    /\ validators = EmptyMap
    /\ clock = 0
    /\ nextUid = 1
    /\ ret = <<"", TRUE>>
    /\ posBlock = <<>>
    /\ engPc = "idle"
    /\ engIndex = 0
    /\ engBlock = <<>>
    /\ queue = <<>>
    /\ stakeCalls = 0
    /\ fastConfirmed = <<>>
    /\ chainMutex = ""
    /\ txMutex = ""
    /\ fast = [t \in Handlers |-> [pc |-> "idle", tx |-> <<>>]]
    /\ imp = [pc |-> "idle", block |-> <<>>, calls |-> 0]
    /\ mineCall = [pc |-> "idle", block |-> <<>>]
    /\ config = DefaultConfig
    /\ currentDifficulty = config.targetDifficulty
    /\ stats = [recentBlockTimes |-> <<>>, difficultyChanges |-> 0]
    /\ isMining = FALSE
    /\ shouldStop = FALSE
    /\ startPc = [c \in Callers |-> "idle"]
    /\ stopMiningPc = "idle"
    /\ miningThread = FALSE
    /\ loops = 0
    /\ walletStatuses = EmptyMap
    /\ totalWalletsRegistered = 0
    /\ pendingContributions = <<>>
    /\ pools = <<>>
    /\ porcStats = [totalRewardsDistributed |-> 0, totalBurned |-> 0, currentBlockReward |-> 0]
    /\ currentBlockHeight = 0
    /\ rot = [pc |-> "idle", enabledWallets |-> <<>>, blockStart |-> 0]
    /\ file = <<>>
    /\ crashed = FALSE
    /\ isRunning = FALSE
    /\ workers = [w \in Workers |-> "none"]
    /\ stopPc = "idle"
    /\ running = TRUE
    /\ mainPc = "startPoRC"
    /\ apiRunning = FALSE
    /\ clients = 0
    /\ maint = "sleep"

(* what the requests served so far have left behind: transactions admitted,
   blocks appended or in the making, transactions queued at the mining engine,
   seconds elapsed, stake calls, calls of the improved producer *)
Work ==
    (nextUid - 1) + (Len(chain) - 1) + Len(posBlock) + (IF engPc = "idle" THEN 0 ELSE 1)
        + Len(queue) + clock + stakeCalls + imp.calls

CanAdmit == Work < MaxOps

(* POST /transaction of main.cpp: the handler signs the transaction *)
HandleTransaction(s, r, a) ==
    /\ CanAdmit
    /\ addTransaction(signTransaction(NewTransaction(s, r, a, FALSE, clock, nextUid)))
    /\ UNCHANGED <<sideVars, chain, difficulty, miningReward, balances, contracts, validators,
                   clock, posBlock, engineVars, stakeCalls, fastConfirmed>>

(* POST /transaction of api.cpp: the transaction is not signed *)
ApiTransaction(s, r, a) ==
    /\ CanAdmit
    /\ addTransaction(NewTransaction(s, r, a, FALSE, clock, nextUid))
    /\ UNCHANGED <<sideVars, chain, difficulty, miningReward, balances, contracts, validators,
                   clock, posBlock, engineVars, stakeCalls, fastConfirmed>>

(* POST /odero/create *)
OderoCreate(creator, a) ==
    /\ CanAdmit
    /\ addTransaction(signTransaction(NewTransaction(creator, "", a, TRUE, clock, nextUid)))
    /\ UNCHANGED <<sideVars, chain, difficulty, miningReward, balances, contracts, validators,
                   clock, posBlock, engineVars, stakeCalls, fastConfirmed>>

(* POST /odero/redeem *)
OderoRedeem(redeemer) ==
    /\ CanAdmit
    /\ addTransaction(signTransaction(
           NewTransaction("COINBASE", redeemer, RedeemAmount, TRUE, clock, nextUid)))
    /\ UNCHANGED <<sideVars, chain, difficulty, miningReward, balances, contracts, validators,
                   clock, posBlock, engineVars, stakeCalls, fastConfirmed>>

(* TransactionPrioritizer::calculateDynamicFee: 0.001 coin plus 0.01% of the
   amount, in units of 0.00001 coin (an amount of one tenth of a coin adds one
   unit) *)
BaseFee == 100
calculateDynamicFee(tx) == BaseFee + tx.amount

(* InstantConfirmation *)
canProcessInstantly(tx) ==
    tx.amount <= INSTANT_LIMIT /\ tx.sender # "COINBASE" /\ ~tx.isOffline

(* Blockchain::updateBalance is called by processInstantTransaction and defined
   nowhere in the sources; the specification's fast path debits and credits the
   balances directly *)
updateBalance(bal, address, delta) == Credit(bal, address, delta)

ProcessInstantAccepts(tx) ==
    canProcessInstantly(tx) /\ ~(getBalance(tx.sender) < tx.amount)

(* ImprovedAPI::handleImprovedTransaction *)
HandleImprovedTransaction(s, r, a) ==
    LET tx == signTransaction(NewTransaction(s, r, a, FALSE, clock, nextUid))
    IN /\ CanAdmit
       /\ IF ProcessInstantAccepts(tx)
          THEN /\ balances' = updateBalance(updateBalance(balances, tx.sender, 0 - tx.amount),
                                            tx.recipient, tx.amount)
               /\ fastConfirmed' = Append(fastConfirmed, tx)
               /\ nextUid' = nextUid + 1
               /\ ret' = <<"processInstantTransaction", TRUE>>
               /\ UNCHANGED pendingTransactions
          ELSE /\ addTransaction(tx)
               /\ UNCHANGED <<balances, fastConfirmed>>
       /\ UNCHANGED <<sideVars, chain, difficulty, miningReward, contracts, validators,
                      clock, posBlock, engineVars, stakeCalls>>

RECURSIVE DrainPending(_, _, _)
DrainPending(pool, b, count) ==
    IF pool = <<>> \/ count >= MAX_TRANSACTIONS_PER_BLOCK
    THEN [pool |-> pool, block |-> b]
    ELSE DrainPending(Tail(pool), BlockAddTransaction(b, Head(pool)),
                      IF isValid(Head(pool)) THEN count + 1 ELSE count)

MineDraft(miner) ==
    DrainPending(pendingTransactions,
                 BlockAddTransaction(
                     NewBlock(getLatestBlock.index + 1, getLatestBlock.hash, clock),
                     NewTransaction("COINBASE", miner, miningReward, FALSE, clock, 0)),
                 0)

(* POST /mine of main.cpp: Blockchain::minePendingTransactions *)
minePendingTransactions(miner) ==
    /\ Work < MaxOps
    /\ CanMine(MineDraft(miner).block, difficulty)
    /\ LET newBlock == mineBlock(MineDraft(miner).block, difficulty)
           r == ProcessAll(newBlock.transactions, balances, contracts)
       IN /\ pendingTransactions' = MineDraft(miner).pool
          /\ chain' = Append(chain, newBlock)
          /\ balances' = r.balances
          /\ contracts' = r.contracts
    /\ ret' = <<"minePendingTransactions", TRUE>>
    /\ UNCHANGED <<sideVars, difficulty, miningReward, validators, clock, nextUid, posBlock,
                   engineVars, stakeCalls, fastConfirmed>>

(* POST /stake: Blockchain::stakeTokens *)
StakeAccepts(address, amount) ==
    address \in DOMAIN balances /\ balances[address] >= amount

stakeTokens(address, amount) ==
    /\ Work < MaxOps
    /\ stakeCalls' = stakeCalls + 1
    /\ IF StakeAccepts(address, amount)
       THEN /\ balances' = [balances EXCEPT ![address] = @ - amount]
            /\ validators' = Credit(validators, address, amount)
       ELSE UNCHANGED <<balances, validators>>
    /\ ret' = <<"stakeTokens", StakeAccepts(address, amount)>>
    /\ UNCHANGED <<sideVars, chain, pendingTransactions, difficulty, miningReward, contracts,
                   clock, nextUid, posBlock, engineVars, fastConfirmed>>

(* POST /validate, first half: getLatestBlock, Block(), validateBlockPoS *)
validateBlockPoS(block, validatorAddress, signature) ==
    BlockAddTransaction(
        [block EXCEPT !.validator = validatorAddress, !.signature = signature],
        NewTransaction("COINBASE", validatorAddress,
                       (miningReward * validators[validatorAddress]) \div StakeDivisor,
                       FALSE, clock, 0))

ValidateBegin(validatorAddress, signature) ==
    /\ posBlock = <<>>
    /\ Work < MaxOps
    /\ IF validatorAddress \in DOMAIN validators
       THEN /\ posBlock' = <<validateBlockPoS(
                               NewBlock(getLatestBlock.index + 1, getLatestBlock.hash, clock),
                               validatorAddress, signature)>>
            /\ UNCHANGED ret
       ELSE /\ posBlock' = <<>>
            /\ ret' = <<"validateBlockPoS", FALSE>>
    /\ UNCHANGED <<sideVars, ledgerVars, clock, nextUid, engineVars, stakeCalls, fastConfirmed>>

(* POST /validate, second half: addBlock *)
ValidateAdd ==
    /\ posBlock # <<>>
    /\ addBlock(posBlock[1])
    /\ posBlock' = <<>>
    /\ UNCHANGED <<sideVars, pendingTransactions, difficulty, miningReward, validators, clock,
                   nextUid, engineVars, stakeCalls, fastConfirmed>>

----------------------------------------------------------------------------
(* MiningEngine *)

RECURSIVE Halve(_, _)
Halve(reward, halvings) ==
    IF halvings = 0 THEN reward ELSE Halve(reward \div 2, halvings - 1)

calculateBlockReward(blockHeight) ==
    (Halve(ConfigMiningReward, blockHeight \div HalvingInterval) \div Coin) * Coin

(* the orders std::sort can leave the pool in: non-increasing amount *)
SortedByAmount(pool) ==
    {p \in [1..Len(pool) -> 1..Len(pool)] :
        /\ \A i, j \in 1..Len(pool) : i # j => p[i] # p[j]
        /\ \A i, j \in 1..Len(pool) : i < j => pool[p[i]].amount >= pool[p[j]].amount}

selectTransactionsForBlock(pool, p) ==
    LET n == Min(Len(pool),
                 Min(ConfigMaxTransactionsPerBlock, ConfigMaxBlockSize \div HashLength))
    IN [i \in 1..n |-> pool[p[i]]]

RECURSIVE AddAll(_, _)
AddAll(b, txs) ==
    IF txs = <<>> THEN b ELSE AddAll(BlockAddTransaction(b, Head(txs)), Tail(txs))

setNonce(b, n) == [b EXCEPT !.nonce = n]

(* Block::updateHash is called by MiningEngine::mineBlock and defined nowhere in
   the sources; the specification's PoW search recomputes block.hash on each
   nonce *)
updateHash(b) == [b EXCEPT !.hash = BlockCalculateHash(b)]

Found(b, d, n) ==
    /\ HasPrefix(updateHash(setNonce(b, n)).hash, d)
    /\ \A m \in 0..(n - 1) : ~HasPrefix(updateHash(setNonce(b, m)).hash, d)

(* the nonce loop of MiningEngine::mineBlock *)
SearchNonce(b, d) ==
    updateHash(setNonce(b, CHOOSE n \in 0..MaxNonce : Found(b, d, n)))

RemoveFirst(q, h) ==
    IF \E i \in 1..Len(q) : TxCalculateHash(q[i]) = h
    THEN LET k == CHOOSE i \in 1..Len(q) :
                      /\ TxCalculateHash(q[i]) = h
                      /\ \A j \in 1..(i - 1) : TxCalculateHash(q[j]) # h
         IN [i \in 1..(Len(q) - 1) |-> IF i < k THEN q[i] ELSE q[i + 1]]
    ELSE q

RECURSIVE RemoveMined(_, _)
RemoveMined(q, txs) ==
    IF txs = <<>> THEN q
    ELSE RemoveMined(RemoveFirst(q, TxCalculateHash(Head(txs))), Tail(txs))

EngineAddAccepts(tx) ==
    \A i \in 1..Len(queue) : TxCalculateHash(queue[i]) # TxCalculateHash(tx)

(* MiningEngine::addTransaction *)
EngineAddTransaction(s, r, a) ==
    LET tx == signTransaction(NewTransaction(s, r, a, FALSE, clock, 0))
    IN /\ Work < MaxOps \/ ~EngineAddAccepts(tx)
       /\ queue' = IF EngineAddAccepts(tx) THEN Append(queue, tx) ELSE queue
       /\ ret' = <<"MiningEngine::addTransaction", EngineAddAccepts(tx)>>
       /\ UNCHANGED <<sideVars, ledgerVars, clock, nextUid, posBlock, engPc, engIndex, engBlock,
                      stakeCalls, fastConfirmed>>

(* MiningEngine::mineBlock, line 230: blockIndex *)
EngineReadIndex ==
    /\ engPc = "idle"
    /\ Work < MaxOps
    /\ engIndex' = getLatestBlock.index + 1
    /\ engPc' = "index"
    /\ UNCHANGED <<sideVars, ledgerVars, clock, nextUid, ret, posBlock, engBlock, queue, stakeCalls, fastConfirmed>>

EngineDraft(miner, p) ==
    AddAll(BlockAddTransaction(
               NewBlock(engIndex, getLatestBlock.hash, clock),
               NewTransaction("COINBASE", miner, calculateBlockReward(engIndex),
                              FALSE, clock, 0)),
           selectTransactionsForBlock(pendingTransactions, p))

(* MiningEngine::recentBlockTimes: calculateNewDifficulty reads it and no
   statement of the sources writes it (updateStats fills the vector of the
   same name in MiningStats) *)
recentBlockTimes == <<>>

RECURSIVE accumulate(_)
accumulate(ts) == IF ts = <<>> THEN 0 ELSE Head(ts) + accumulate(Tail(ts))

Max(a, b) == IF a > b THEN a ELSE b

(* MiningEngine::calculateNewDifficulty over the samples it is given *)
calculateNewDifficulty(times, d, cfg) ==
    IF Len(times) < 2 THEN d
    ELSE LET averageTime == accumulate(times) \div Len(times)
         IN IF averageTime * 10 < cfg.targetBlockTime * 8
            THEN Min((d + 1) % Uint64Modulus, cfg.maxDifficulty)
            ELSE IF averageTime * 10 > cfg.targetBlockTime * 12
            THEN Max((d - 1) % Uint64Modulus, cfg.minDifficulty)
            ELSE d

(* MiningStats::updateStats: the window of recent block times *)
updateStats(st, blockTime) ==
    LET pushed == Append(st.recentBlockTimes, blockTime)
    IN [st EXCEPT !.recentBlockTimes =
                      IF Len(pushed) > StatsWindow THEN Tail(pushed) ELSE pushed]

(* MiningEngine::adjustDifficulty *)
adjustDifficulty(st) ==
    LET newDifficulty == calculateNewDifficulty(recentBlockTimes, currentDifficulty, config)
    IN /\ currentDifficulty' = newDifficulty
       /\ stats' = IF newDifficulty # currentDifficulty
                   THEN [st EXCEPT !.difficultyChanges = @ + 1]
                   ELSE st

(* the block MiningEngine::mineBlock returns when it gives up: Block(-1, "0") *)
SentinelIndex == Uint64Modulus - 1
SentinelBlock == NewBlock(SentinelIndex, <<>>, clock)

(* the nonce loop with the stop flag left out of its condition *)
CancelledByAttempts(b, d, maxAttempts) ==
    maxAttempts # 0 /\ \A n \in 0..(maxAttempts - 1) :
                           n <= MaxNonce => ~HasPrefix(updateHash(setNonce(b, n)).hash, d)

(* the nonce loop ends without a solution: the stop flag is up, or
   maxAttempts nonces have been tried *)
Cancelled(b, d, maxAttempts) ==
    shouldStop \/ (maxAttempts # 0 /\ \A n \in 0..(maxAttempts - 1) :
                                         n <= MaxNonce => ~HasPrefix(updateHash(setNonce(b, n)).hash, d))

(* MiningEngine::mineBlock, lines 231-290 *)
EngineMineBlock(miner, miningTime, maxAttempts) ==
    /\ engPc = "index"
    /\ \E p \in SortedByAmount(pendingTransactions) :
          IF Cancelled(EngineDraft(miner, p), difficulty, maxAttempts)
          THEN /\ engBlock' = <<SentinelBlock>>
               /\ UNCHANGED <<currentDifficulty, stats>>
          ELSE /\ \E n \in 0..MaxNonce : Found(EngineDraft(miner, p), difficulty, n)
               /\ engBlock' = <<SearchNonce(EngineDraft(miner, p), difficulty)>>
               /\ IF config.enableDynamicDifficulty
                  THEN adjustDifficulty(updateStats(stats, miningTime))
                  ELSE /\ stats' = updateStats(stats, miningTime)
                       /\ UNCHANGED currentDifficulty
    /\ engPc' = "mined"
    /\ UNCHANGED <<improvedVars, porcVars, hostVars, runVars, config, isMining, shouldStop, threadVars, ledgerVars, clock, nextUid, ret,
                   posBlock, engIndex, queue, stakeCalls, fastConfirmed>>

(* MiningEngine::startMining *)
startMining ==
    /\ ~isMining
    /\ isMining' = TRUE
    /\ shouldStop' = FALSE
    /\ UNCHANGED <<improvedVars, porcVars, hostVars, runVars, config, currentDifficulty, stats, threadVars, ledgerVars, clock, nextUid,
                   ret, posBlock, engineVars, stakeCalls, fastConfirmed>>

(* MiningEngine::stopMining *)
stopMining ==
    /\ isMining
    /\ shouldStop' = TRUE
    /\ isMining' = FALSE
    /\ UNCHANGED <<improvedVars, porcVars, hostVars, runVars, config, currentDifficulty, stats, threadVars, ledgerVars, clock, nextUid,
                   ret, posBlock, engineVars, stakeCalls, fastConfirmed>>

(* MiningEngine::updateConfig *)
updateConfig(newConfig) ==
    /\ config' = newConfig
    /\ UNCHANGED <<improvedVars, porcVars, hostVars, runVars, currentDifficulty, stats, isMining, shouldStop, threadVars, ledgerVars,
                   clock, nextUid, ret, posBlock, engineVars, stakeCalls, fastConfirmed>>

(* MiningEngine::miningLoop, lines 470-491 *)
EngineSubmit ==
    /\ engPc = "mined"
    /\ addBlock(engBlock[1])
    /\ queue' = IF AddBlockAccepts(engBlock[1])
                THEN RemoveMined(queue, engBlock[1].transactions)
                ELSE queue
    /\ engBlock' = <<>>
    /\ engPc' = "idle"
    /\ UNCHANGED <<sideVars, pendingTransactions, difficulty, miningReward, validators, clock,
                   nextUid, posBlock, engIndex, stakeCalls, fastConfirmed>>

Tick ==
    /\ Work < MaxOps
    /\ clock' = clock + 1
    /\ UNCHANGED <<sideVars, ledgerVars, nextUid, ret, posBlock, engineVars, stakeCalls, fastConfirmed>>

Next ==
    \/ \E s \in Senders, r \in Recipients, a \in Amounts : HandleTransaction(s, r, a)
    \/ \E s \in ApiSenders, r \in Recipients, a \in Amounts : ApiTransaction(s, r, a)
    \/ \E s \in Senders, a \in Amounts : OderoCreate(s, a)
    \/ \E r \in Recipients : OderoRedeem(r)
    \/ \E s \in Senders, r \in Recipients, a \in ImprovedAmounts :
           HandleImprovedTransaction(s, r, a)
    \/ \E m \in Miners : minePendingTransactions(m)
    \/ \E s \in Stakers, a \in StakeAmounts : stakeTokens(s, a)
    \/ \E v \in Stakers, g \in Signatures : ValidateBegin(v, g)
    \/ ValidateAdd
    \/ \E s \in Senders, r \in Recipients, a \in Amounts : EngineAddTransaction(s, r, a)
    \/ EngineReadIndex
    \/ \E m \in Miners, t \in MiningTimes, k \in LoopAttempts : EngineMineBlock(m, t, k)
    \/ EngineSubmit
    \/ Tick

Spec == Init /\ [][Next]_vars

----------------------------------------------------------------------------
(* Concurrent requests and the improved producer.  api.cpp serves every
   connection on a thread of its own; processInstantTransaction takes no lock,
   so its balance check and its two updateBalance calls are separate steps of
   the serving thread.  ImprovedMiningEngine::minePendingTransactions takes the
   two ledger locks and then calls Blockchain::addBlock, which takes chainMutex
   again. *)

(* Blockchain::getChainMutex and getTxMutex are called by the improved producer
   and defined nowhere in the sources; the specification names one lock for
   the chain and one for the mempool, the two mutexes of Blockchain *)
getChainMutex == chainMutex
getTxMutex == txMutex

(* Transaction::getFee is called by sortByFee and defined nowhere in the
   sources; the specification's fee defaults to base fee plus rate times
   amount, which calculateDynamicFee computes *)
getFee(tx) == calculateDynamicFee(tx)

(* TransactionPrioritizer::sortByFee: the orders std::sort can leave the
   transactions in, fee descending and timestamp ascending among equal fees *)
sortByFee(pool) ==
    {p \in [1..Len(pool) -> 1..Len(pool)] :
        /\ \A i, j \in 1..Len(pool) : i # j => p[i] # p[j]
        /\ \A i, j \in 1..Len(pool) : i < j =>
               \/ getFee(pool[p[i]]) > getFee(pool[p[j]])
               \/ /\ getFee(pool[p[i]]) = getFee(pool[p[j]])
                  /\ pool[p[i]].timestamp <= pool[p[j]].timestamp}

(* the loop of ImprovedMiningEngine::minePendingTransactions over the sorted
   copy of the pool: a transaction the instant confirmation accepts is applied
   to the balances and skipped, any other goes into the block *)
RECURSIVE ImprovedLoop(_, _, _, _, _)
ImprovedLoop(txs, b, bal, done, count) ==
    IF txs = <<>> \/ count >= ImprovedMaxTransactionsPerBlock
    THEN [block |-> b, balances |-> bal, confirmed |-> done]
    ELSE LET tx == Head(txs)
             have == IF tx.sender \in DOMAIN bal THEN bal[tx.sender] ELSE 0
         IN IF canProcessInstantly(tx) /\ ~(have < tx.amount)
            THEN ImprovedLoop(Tail(txs), b,
                              updateBalance(updateBalance(bal, tx.sender, 0 - tx.amount),
                                            tx.recipient, tx.amount),
                              Append(done, tx), count)
            ELSE ImprovedLoop(Tail(txs), BlockAddTransaction(b, tx), bal, done,
                              IF isValid(tx) THEN count + 1 ELSE count)

ImprovedDraft(miner, p) ==
    ImprovedLoop([i \in 1..Len(pendingTransactions) |-> pendingTransactions[p[i]]],
                 BlockAddTransaction(
                     NewBlock(getLatestBlock.index + 1, getLatestBlock.hash, clock),
                     NewTransaction("COINBASE", miner, ImprovedMiningReward, FALSE, clock, 0)),
                 balances, <<>>, 0)

(* lock_guard lockChain(blockchain.getChainMutex()); calls counts the calls
   that find a transaction for the instant confirmation in the pool *)
ImprovedLockChain ==
    /\ imp.pc = "idle"
    /\ CanAdmit \/ \A i \in 1..Len(pendingTransactions) :
                       ~canProcessInstantly(pendingTransactions[i])
    /\ getChainMutex = ""
    /\ chainMutex' = "producer"
    /\ imp' = [imp EXCEPT !.pc = "chain",
                          !.calls = IF \E i \in 1..Len(pendingTransactions) :
                                           canProcessInstantly(pendingTransactions[i])
                                    THEN @ + 1 ELSE @]
    /\ UNCHANGED <<ledgerVars, clock, nextUid, ret, posBlock, engineVars, stakeCalls,
                   fastConfirmed, txMutex, fast, mineCall,
                   retargetVars, porcVars, hostVars, runVars>>

(* lock_guard lockTx(blockchain.getTxMutex()) *)
ImprovedLockTx ==
    /\ imp.pc = "chain"
    /\ getTxMutex = ""
    /\ txMutex' = "producer"
    /\ imp' = [imp EXCEPT !.pc = "locked"]
    /\ UNCHANGED <<ledgerVars, clock, nextUid, ret, posBlock, engineVars, stakeCalls,
                   fastConfirmed, chainMutex, fast, mineCall,
                   retargetVars, porcVars, hostVars, runVars>>

(* from the coinbase transaction to newBlock.mineBlock(config.targetDifficulty) *)
ImprovedMine(miner) ==
    /\ imp.pc = "locked"
    /\ \E p \in sortByFee(pendingTransactions) :
           \E d \in {ImprovedDraft(miner, p)} :
               /\ CanMine(d.block, ImprovedTargetDifficulty)
               /\ balances' = d.balances
               /\ fastConfirmed' = fastConfirmed \o d.confirmed
               /\ \E newBlock \in {mineBlock(d.block, ImprovedTargetDifficulty)} :
                      imp' = [imp EXCEPT !.pc = "mined", !.block = <<newBlock>>]
    /\ UNCHANGED <<chain, pendingTransactions, difficulty, miningReward, contracts,
                   validators, clock, nextUid, ret, posBlock, engineVars, stakeCalls,
                   chainMutex, txMutex, fast, mineCall,
                   retargetVars, porcVars, hostVars, runVars>>

(* blockchain.addBlock(newBlock): addBlock locks chainMutex, which this thread
   holds.  Locking a std::mutex the thread owns is undefined: the thread
   blocks for ever on itself with both locks held, or lock() throws
   std::system_error (resource_deadlock_would_occur), which unwinds the call,
   releases both locks and drops the block. *)
ImprovedAddBlock ==
    /\ imp.pc = "mined"
    /\ \/ /\ imp' = [imp EXCEPT !.pc = "blocked"]
          /\ UNCHANGED <<chainMutex, txMutex, ret>>
       \/ /\ imp' = [imp EXCEPT !.pc = "idle", !.block = <<>>]
          /\ chainMutex' = ""
          /\ txMutex' = ""
          /\ ret' = <<"ImprovedMiningEngine::minePendingTransactions", "system_error">>
    /\ UNCHANGED <<ledgerVars, clock, nextUid, posBlock, engineVars, stakeCalls,
                   fastConfirmed, fast, mineCall,
                   retargetVars, porcVars, hostVars, runVars>>

(* handleImprovedTransaction up to the balance check of
   processInstantTransaction; a transaction the check refuses goes to
   Blockchain::addTransaction, which takes txMutex *)
FastCheck(t, s, r, a) ==
    LET tx == signTransaction(NewTransaction(s, r, a, FALSE, clock, nextUid))
    IN /\ fast[t].pc = "idle"
       /\ CanAdmit
       /\ IF ProcessInstantAccepts(tx)
          THEN /\ fast' = [fast EXCEPT ![t] = [pc |-> "checked", tx |-> <<tx>>]]
               /\ nextUid' = nextUid + 1
               /\ UNCHANGED <<pendingTransactions, ret>>
          ELSE /\ txMutex = ""
               /\ addTransaction(tx)
               /\ UNCHANGED fast
       /\ UNCHANGED <<chain, difficulty, miningReward, balances, contracts, validators,
                      clock, posBlock, engineVars, stakeCalls, fastConfirmed,
                      chainMutex, txMutex, imp, mineCall,
                   retargetVars, porcVars, hostVars, runVars>>

(* blockchain.updateBalance(sender, -amount) *)
FastDebit(t) ==
    /\ fast[t].pc = "checked"
    /\ balances' = updateBalance(balances, fast[t].tx[1].sender, 0 - fast[t].tx[1].amount)
    /\ fast' = [fast EXCEPT ![t].pc = "debited"]
    /\ UNCHANGED <<chain, pendingTransactions, difficulty, miningReward, contracts,
                   validators, clock, nextUid, ret, posBlock, engineVars, stakeCalls,
                   fastConfirmed, chainMutex, txMutex, imp, mineCall,
                   retargetVars, porcVars, hostVars, runVars>>

(* blockchain.updateBalance(recipient, amount), and the return *)
FastCredit(t) ==
    /\ fast[t].pc = "debited"
    /\ balances' = updateBalance(balances, fast[t].tx[1].recipient, fast[t].tx[1].amount)
    /\ fastConfirmed' = Append(fastConfirmed, fast[t].tx[1])
    /\ fast' = [fast EXCEPT ![t] = [pc |-> "idle", tx |-> <<>>]]
    /\ ret' = <<"processInstantTransaction", TRUE>>
    /\ UNCHANGED <<chain, pendingTransactions, difficulty, miningReward, contracts,
                   validators, clock, nextUid, posBlock, engineVars, stakeCalls,
                   chainMutex, txMutex, imp, mineCall,
                   retargetVars, porcVars, hostVars, runVars>>

(* POST /transaction of main.cpp on its own thread: addTransaction waits for txMutex *)
LockedHandleTransaction(s, r, a) ==
    /\ txMutex = ""
    /\ HandleTransaction(s, r, a)

(* POST /mine on its own thread: Blockchain::minePendingTransactions waits for
   chainMutex and txMutex *)
LockedMinePendingTransactions(miner) ==
    /\ chainMutex = ""
    /\ txMutex = ""
    /\ minePendingTransactions(miner)

(* POST /stake on its own thread: Blockchain::stakeTokens waits for chainMutex *)
LockedStakeTokens(s, a) ==
    /\ chainMutex = ""
    /\ stakeTokens(s, a)

NextImproved ==
    \/ \E t \in Handlers, s \in Senders, r \in SmallRecipients, a \in SmallAmounts :
           FastCheck(t, s, r, a)
    \/ \E t \in Handlers : FastDebit(t)
    \/ \E t \in Handlers : FastCredit(t)
    \/ ImprovedLockChain
    \/ ImprovedLockTx
    \/ \E m \in Miners : ImprovedMine(m)
    \/ ImprovedAddBlock
    \/ \E s \in Senders, r \in Recipients, a \in SmallAmounts : LockedHandleTransaction(s, r, a)
    \/ \E m \in Miners : LockedMinePendingTransactions(m)
    \/ \E s \in Stakers, a \in StakeAmounts : LockedStakeTokens(s, a)

SpecImproved == Init /\ [][NextImproved]_vars

(* The improved producer called again and again on a node that admits
   transactions. *)
ImprovedStep ==
    \/ ImprovedLockChain
    \/ ImprovedLockTx
    \/ \E m \in Miners : ImprovedMine(m)
    \/ ImprovedAddBlock

NextPool ==
    \/ \E s \in Senders, r \in Recipients, a \in Amounts : LockedHandleTransaction(s, r, a)
    \/ ImprovedLockChain
    \/ ImprovedLockTx
    \/ \E m \in Miners : ImprovedMine(m)
    \/ ImprovedAddBlock
    \/ Tick /\ UNCHANGED <<improvedVars, retargetVars, porcVars, hostVars, runVars>>

(* the producer's thread is scheduled in the end *)
SpecPool == Init /\ [][NextPool]_vars /\ WF_vars(ImprovedStep)

----------------------------------------------------------------------------
(* The mining engine on its own: any configuration handed to the constructor,
   mineBlock called with or without an attempt limit, the mining thread
   started and stopped, the configuration replaced *)

(* MiningEngine::MiningEngine *)
InitEngine ==
    /\ chain = <<GenesisBlock>>
    /\ pendingTransactions = <<>>
    /\ difficulty = InitialDifficulty
    /\ miningReward = InitialMiningReward
    /\ balances = ("GENESIS" :> GenesisAmount)
    /\ contracts = EmptyMap
    /\ validators = EmptyMap
    /\ clock = 0
    /\ nextUid = 1
    /\ ret = <<"", TRUE>>
    /\ posBlock = <<>>
    /\ engPc = "idle"
    /\ engIndex = 0
    /\ engBlock = <<>>
    /\ queue = <<>>
    /\ stakeCalls = 0
    /\ fastConfirmed = <<>>
    /\ chainMutex = ""
    /\ txMutex = ""
    /\ fast = [t \in Handlers |-> [pc |-> "idle", tx |-> <<>>]]
    /\ imp = [pc |-> "idle", block |-> <<>>, calls |-> 0]
    /\ mineCall = [pc |-> "idle", block |-> <<>>]
    /\ config \in Configs
    /\ currentDifficulty = config.targetDifficulty
    /\ stats = [recentBlockTimes |-> <<>>, difficultyChanges |-> 0]
    /\ isMining = FALSE
    /\ shouldStop = FALSE
    /\ startPc = [c \in Callers |-> "idle"]
    /\ stopMiningPc = "idle"
    /\ miningThread = FALSE
    /\ loops = 0
    /\ walletStatuses = EmptyMap
    /\ totalWalletsRegistered = 0
    /\ pendingContributions = <<>>
    /\ pools = <<>>
    /\ porcStats = [totalRewardsDistributed |-> 0, totalBurned |-> 0, currentBlockReward |-> 0]
    /\ currentBlockHeight = 0
    /\ rot = [pc |-> "idle", enabledWallets |-> <<>>, blockStart |-> 0]
    /\ file = <<>>
    /\ crashed = FALSE
    /\ isRunning = FALSE
    /\ workers = [w \in Workers |-> "none"]
    /\ stopPc = "idle"
    /\ running = TRUE
    /\ mainPc = "startPoRC"
    /\ apiRunning = FALSE
    /\ clients = 0
    /\ maint = "sleep"

NextEngine ==
    \/ startMining
    \/ stopMining
    \/ \E c \in Configs : updateConfig(c)
    \/ \E s \in Senders, r \in Recipients, a \in Amounts : HandleTransaction(s, r, a)
    \/ \E s \in Senders, r \in Recipients, a \in Amounts : EngineAddTransaction(s, r, a)
    \/ EngineReadIndex
    \/ \E m \in Miners, t \in MiningTimes, k \in Attempts : EngineMineBlock(m, t, k)
    \/ EngineSubmit

SpecEngine == InitEngine /\ [][NextEngine]_vars

----------------------------------------------------------------------------
(* startMining and stopMining called from several threads.  isMining and
   shouldStop are std::atomic<bool>, so each statement of the two functions is
   a step of its own; miningThread is a plain std::thread. *)

threadRest == <<ledgerVars, clock, nextUid, posBlock, engineVars, stakeCalls, fastConfirmed,
                improvedVars, porcVars, runVars, file, shutdownVars, config,
                currentDifficulty, stats>>

(* startMining, lines 153-156: if (isMining) return false *)
StartCheck(c) ==
    /\ ~crashed
    /\ startPc[c] = "idle"
    /\ IF isMining
       THEN /\ ret' = <<"startMining", FALSE>>
            /\ UNCHANGED startPc
       ELSE /\ startPc' = [startPc EXCEPT ![c] = "tested"]
            /\ UNCHANGED ret
    /\ UNCHANGED <<threadRest, crashed, isMining, shouldStop, stopMiningPc, miningThread, loops>>

(* startMining, lines 158-159 *)
StartFlag(c) ==
    /\ ~crashed
    /\ startPc[c] = "tested"
    /\ isMining' = TRUE
    /\ shouldStop' = FALSE
    /\ startPc' = [startPc EXCEPT ![c] = "flagged"]
    /\ UNCHANGED <<threadRest, crashed, ret, stopMiningPc, miningThread, loops>>

(* startMining, line 161, right-hand side: std::thread(&miningLoop, ...) starts
   the thread *)
StartSpawn(c) ==
    /\ ~crashed
    /\ startPc[c] = "flagged"
    /\ loops' = loops + 1
    /\ startPc' = [startPc EXCEPT ![c] = "spawned"]
    /\ UNCHANGED <<threadRest, crashed, ret, isMining, shouldStop, stopMiningPc, miningThread>>

(* startMining, lines 161-163: the move assignment to miningThread and the
   return.  Assigning to a joinable std::thread calls std::terminate; the
   handle is joinable here only when another call is at work on it, and two
   accesses that overlap are a data race, after which the assignment may as
   well replace the handle. *)
StartAssign(c) ==
    /\ ~crashed
    /\ startPc[c] = "spawned"
    /\ \/ /\ miningThread
          /\ crashed' = TRUE
          /\ UNCHANGED <<startPc, miningThread, ret>>
       \/ /\ miningThread' = TRUE
          /\ startPc' = [startPc EXCEPT ![c] = "idle"]
          /\ ret' = <<"startMining", TRUE>>
          /\ UNCHANGED crashed
    /\ UNCHANGED <<threadRest, isMining, shouldStop, stopMiningPc, loops>>

(* stopMining, lines 167-176 *)
StopFlag ==
    /\ ~crashed
    /\ stopMiningPc = "idle"
    /\ IF isMining
       THEN /\ shouldStop' = TRUE
            /\ isMining' = FALSE
            /\ stopMiningPc' = "join"
            /\ UNCHANGED ret
       ELSE /\ ret' = <<"stopMining", "returned">>
            /\ UNCHANGED <<shouldStop, isMining, stopMiningPc>>
    /\ UNCHANGED <<threadRest, crashed, startPc, miningThread, loops>>

(* stopMining, lines 178-182: join returns when the thread has left
   miningLoop *)
StopJoin ==
    /\ ~crashed
    /\ stopMiningPc = "join"
    /\ miningThread => loops = 0
    /\ miningThread' = FALSE
    /\ stopMiningPc' = "idle"
    /\ ret' = <<"stopMining", "returned">>
    /\ UNCHANGED <<threadRest, crashed, startPc, isMining, shouldStop, loops>>

(* miningLoop, line 462: the loop test fails and the thread ends *)
LoopExit ==
    /\ ~crashed
    /\ loops > 0
    /\ engPc = "idle"
    /\ ~isMining \/ shouldStop
    /\ loops' = loops - 1
    /\ UNCHANGED <<threadRest, crashed, ret, startPc, isMining, shouldStop, stopMiningPc,
                   miningThread>>

(* miningLoop, line 462: the loop test holds *)
LoopRuns == ~crashed /\ loops > 0 /\ isMining /\ ~shouldStop

NextThreads ==
    \/ \E c \in Callers : StartCheck(c)
    \/ \E c \in Callers : StartFlag(c)
    \/ \E c \in Callers : StartSpawn(c)
    \/ \E c \in Callers : StartAssign(c)
    \/ StopFlag
    \/ StopJoin
    \/ LoopExit
    \/ LoopRuns /\ EngineReadIndex
    \/ ~crashed /\ loops > 0
          /\ \E m \in Miners, t \in MiningTimes, k \in LoopAttempts : EngineMineBlock(m, t, k)
    \/ ~crashed /\ loops > 0 /\ EngineSubmit
    \/ ~crashed /\ \E s \in Senders, r \in Recipients, a \in Amounts : HandleTransaction(s, r, a)

SpecThreads == Init /\ [][NextThreads]_vars

----------------------------------------------------------------------------
(* The PoRC system of src/core/porc.cpp: its public operations and its reward
   and pool-rotation workers.  Rewards are doubles in the source; the model
   computes them as exact fractions <<numerator, denominator>> and converts to
   micro units by truncation, as static_cast<uint64_t>(reward * 1000000)
   does. *)

(* the integer part of num / den * 10^digits, digit by digit *)
RECURSIVE LongDivision(_, _, _)
LongDivision(num, den, digits) ==
    IF digits = 0 THEN num \div den
    ELSE (num \div den) * 10 ^ digits + LongDivision((num % den) * 10, den, digits - 1)

(* PoRCContribution::calculateResourcePoints *)
calculateResourcePoints(c) ==
    c.bandwidthUsed * RESOURCE_POINT_MB + (c.transactionsRelayed \div RESOURCE_POINT_TX)

(* distributeRewards, lines 681-685: walletPoints[w], and totalPoints for w = "" *)
RECURSIVE SumPoints(_, _)
SumPoints(cs, w) ==
    IF cs = <<>> THEN 0
    ELSE (IF w = "" \/ Head(cs).walletAddress = w THEN calculateResourcePoints(Head(cs)) ELSE 0)
         + SumPoints(Tail(cs), w)

(* static_cast<uint64_t>(blockReward * 1000000) *)
BlockRewardMicro == LongDivision(DAILY_REWARD_POOL, BLOCKS_PER_DAY, MicroDigits)

(* PoRCSystem::calculateReward, for a wallet that is or is not an early adopter *)
calculateReward(early, resourcePoints, totalPoints) ==
    LET m == IF early THEN BONDING_CURVE_EARLY ELSE <<1, 1>>
        num == resourcePoints * DAILY_REWARD_POOL * m[1]
        den == totalPoints * BLOCKS_PER_DAY * m[2]
    IN IF num * MAX_REWARD_PER_BLOCK[2] > MAX_REWARD_PER_BLOCK[1] * den
       THEN MAX_REWARD_PER_BLOCK
       ELSE <<num, den>>

(* static_cast<uint64_t>(reward * 1000000) *)
ToMicro(r) == LongDivision(r[1], r[2], MicroDigits)

(* PoRCSystem::isEarlyAdopter *)
isEarlyAdopter == totalWalletsRegistered < EARLY_ADOPTER_LIMIT

(* PoRCSystem::validateContribution *)
validateContribution(c) ==
    /\ c.walletAddress # "" /\ c.taskId # ""
    /\ ~(c.bandwidthUsed = 0 /\ c.transactionsRelayed = 0)

(* registrations, contributions waiting, block heights and paying reward
   ticks so far *)
PoRCWork ==
    totalWalletsRegistered + Len(pendingContributions) + currentBlockHeight
        + (porcStats.totalRewardsDistributed \div BlockRewardMicro)

nodeVars == <<ledgerVars, clock, nextUid, posBlock, engineVars, stakeCalls, fastConfirmed,
              improvedVars, retargetVars, hostVars>>

(* PoRCSystem::validateWalletEligibility *)
validateWalletEligibility(address, balance, activity) ==
    balance >= MIN_BALANCE /\ activity >= MIN_ACTIVITY

(* PoRCSystem::enablePoRC; saved is the result of saveWalletStatus, the
   INSERT OR REPLACE into the wallet_status table *)
enablePoRC(address, saved) ==
    /\ PoRCWork < MaxOps
    /\ walletStatuses' =
           (address :> [isEnabled |-> TRUE, isEarlyAdopter |-> isEarlyAdopter,
                        poolIndex |-> totalWalletsRegistered % POOL_SIZE,
                        totalRewards |-> 0, totalResourcePoints |-> 0])
           @@ walletStatuses
    /\ totalWalletsRegistered' = totalWalletsRegistered + 1
    /\ ret' = <<"enablePoRC", saved>>
    /\ UNCHANGED <<nodeVars, pendingContributions, pools, porcStats, currentBlockHeight, rot>>

(* PoRCSystem::disablePoRC *)
disablePoRC(address) ==
    /\ walletStatuses' = IF address \in DOMAIN walletStatuses
                         THEN [walletStatuses EXCEPT ![address].isEnabled = FALSE]
                         ELSE walletStatuses
    /\ ret' = <<"disablePoRC", address \in DOMAIN walletStatuses>>
    /\ UNCHANGED <<nodeVars, totalWalletsRegistered, pendingContributions, pools, porcStats,
                   currentBlockHeight, rot>>

(* PoRCSystem::submitContribution; saved is the result of saveContribution,
   the INSERT into the contributions table *)
submitContribution(c, saved) ==
    /\ PoRCWork < MaxOps \/ ~validateContribution(c)
    /\ pendingContributions' = IF validateContribution(c)
                               THEN Append(pendingContributions, c)
                               ELSE pendingContributions
    /\ ret' = <<"submitContribution", validateContribution(c) /\ saved>>
    /\ UNCHANGED <<nodeVars, walletStatuses, totalWalletsRegistered, pools, porcStats,
                   currentBlockHeight, rot>>

(* PoRCSystem::distributeRewards *)
distributeRewards ==
    LET totalPoints == SumPoints(pendingContributions, "")
        paid(w) == ToMicro(calculateReward(walletStatuses[w].isEarlyAdopter,
                                            SumPoints(pendingContributions, w), totalPoints))
    IN /\ IF pendingContributions = <<>> \/ totalPoints = 0
          THEN UNCHANGED <<walletStatuses, pendingContributions, porcStats>>
          ELSE /\ walletStatuses' =
                      [w \in DOMAIN walletStatuses |->
                          IF SumPoints(pendingContributions, w) > 0
                          THEN [walletStatuses[w] EXCEPT
                                    !.totalRewards = @ + paid(w),
                                    !.totalResourcePoints = @ + SumPoints(pendingContributions, w)]
                          ELSE walletStatuses[w]]
               /\ pendingContributions' = <<>>
               /\ porcStats' = [porcStats EXCEPT
                                    !.totalRewardsDistributed = @ + BlockRewardMicro,
                                    !.currentBlockReward = BlockRewardMicro]
       /\ UNCHANGED <<nodeVars, ret, totalWalletsRegistered, pools, currentBlockHeight, rot>>

(* PoRCSystem::updateBlockHeight: currentBlockHeight is a plain uint64_t that
   the caller's thread writes under no lock *)
updateBlockHeight ==
    /\ PoRCWork < MaxOps
    /\ currentBlockHeight' = currentBlockHeight + 1
    /\ UNCHANGED <<nodeVars, ret, walletStatuses, totalWalletsRegistered, pendingContributions,
                   pools, porcStats, rot>>

(* std::map iterates the wallets in the order of their addresses *)
WalletOrder == <<"W1", "W2">>
IsEnabledWallet(w) == w \in DOMAIN walletStatuses /\ walletStatuses[w].isEnabled

(* rotatePools, lines 906-909: poolsMutex taken, pools cleared *)
rotateClear ==
    /\ rot.pc = "idle"
    /\ pools' = <<>>
    /\ rot' = [rot EXCEPT !.pc = "scan"]
    /\ UNCHANGED <<nodeVars, ret, walletStatuses, totalWalletsRegistered, pendingContributions,
                   porcStats, currentBlockHeight>>

(* rotatePools, lines 911-919: the enabled wallets, read under walletMutex;
   with none the loop over the pools does nothing *)
rotateScan ==
    /\ rot.pc = "scan"
    /\ rot' = [rot EXCEPT !.enabledWallets = SelectSeq(WalletOrder, IsEnabledWallet),
                          !.pc = IF SelectSeq(WalletOrder, IsEnabledWallet) = <<>>
                                 THEN "idle" ELSE "blockStart"]
    /\ UNCHANGED <<nodeVars, ret, walletStatuses, totalWalletsRegistered, pendingContributions,
                   pools, porcStats, currentBlockHeight>>

(* rotatePools, line 926: pool.blockStart = currentBlockHeight, read under no lock *)
rotateBlockStart ==
    /\ rot.pc = "blockStart"
    /\ rot' = [rot EXCEPT !.blockStart = currentBlockHeight, !.pc = "blockEnd"]
    /\ UNCHANGED <<nodeVars, ret, walletStatuses, totalWalletsRegistered, pendingContributions,
                   pools, porcStats, currentBlockHeight>>

(* rotatePools, lines 927-934: pool.blockEnd, the wallets of the pool, push_back.
   The wallets of the model fill less than one pool, so the loop over the pools
   runs once. *)
rotatePush ==
    /\ rot.pc = "blockEnd"
    /\ pools' = Append(pools,
                       [poolIndex |-> Len(pools), isActive |-> TRUE,
                        blockStart |-> rot.blockStart,
                        blockEnd |-> currentBlockHeight + POOL_ROTATION_BLOCKS,
                        walletAddresses |->
                            SubSeq(rot.enabledWallets, 1, Min(POOL_SIZE, Len(rot.enabledWallets)))])
    /\ rot' = [rot EXCEPT !.pc = "idle", !.enabledWallets = <<>>]
    /\ UNCHANGED <<nodeVars, ret, walletStatuses, totalWalletsRegistered, pendingContributions,
                   porcStats, currentBlockHeight>>

NextPoRC ==
    \/ (\E a \in PoRCWallets, saved \in BOOLEAN : enablePoRC(a, saved)) /\ UNCHANGED runVars
    \/ (\E a \in PoRCWallets : disablePoRC(a)) /\ UNCHANGED runVars
    \/ (\E c \in Contributions, saved \in BOOLEAN : submitContribution(c, saved))
           /\ UNCHANGED runVars
    \/ distributeRewards /\ UNCHANGED runVars
    \/ updateBlockHeight /\ UNCHANGED runVars
    \/ rotateClear /\ UNCHANGED runVars
    \/ rotateScan /\ UNCHANGED runVars
    \/ rotateBlockStart /\ UNCHANGED runVars
    \/ rotatePush /\ UNCHANGED runVars

SpecPoRC == Init /\ [][NextPoRC]_vars

----------------------------------------------------------------------------
(* The PoRC system started and stopped: start launches the three worker
   threads, each of which runs  while (isRunning) { sleep; work }  and stop
   lowers isRunning and joins them in turn.  The workers call the operations
   above; poolsMutex keeps generateTasks out while rotatePools is under way. *)

JoinOrder == <<"taskAssignment", "rewardDistribution", "poolRotation">>

(* PoRCSystem::start *)
start ==
    /\ ~isRunning
    /\ stopPc \in {"idle", "returned"}
    /\ isRunning' = TRUE
    /\ workers' = [w \in Workers |-> "check"]
    /\ stopPc' = "idle"
    /\ ret' = <<"start", TRUE>>
    /\ UNCHANGED <<nodeVars, porcVars>>

(* PoRCSystem::stop, lines 318-322: the flag is lowered *)
stop ==
    /\ isRunning
    /\ stopPc = "idle"
    /\ isRunning' = FALSE
    /\ stopPc' = JoinOrder[1]
    /\ UNCHANGED <<nodeVars, porcVars, ret, workers>>

(* stop without waiting for the thread it joins *)
stopJoinNoWait ==
    /\ stopPc \in Workers
    /\ stopPc' = IF stopPc = JoinOrder[Len(JoinOrder)] THEN "returned"
                 ELSE JoinOrder[1 + CHOOSE i \in 1..Len(JoinOrder) : JoinOrder[i] = stopPc]
    /\ UNCHANGED <<nodeVars, porcVars, ret, workers, isRunning>>

(* PoRCSystem::stop, lines 325-333: join returns when the thread has left its
   loop; after the third join stop returns *)
stopJoin ==
    /\ stopPc \in Workers
    /\ workers[stopPc] = "exited"
    /\ stopPc' = IF stopPc = JoinOrder[Len(JoinOrder)] THEN "returned"
                 ELSE JoinOrder[1 + CHOOSE i \in 1..Len(JoinOrder) : JoinOrder[i] = stopPc]
    /\ UNCHANGED <<nodeVars, porcVars, ret, workers, isRunning>>

(* while (isRunning), and the sleep_for that opens the loop body *)
loopCheck(w) ==
    /\ workers[w] = "check"
    /\ workers' = [workers EXCEPT ![w] = IF isRunning THEN "work" ELSE "exited"]
    /\ UNCHANGED <<nodeVars, porcVars, ret, isRunning, stopPc>>

(* taskAssignmentLoop: generateTasks, under poolsMutex; the task queue is not
   part of the model *)
taskAssignmentLoop ==
    /\ workers["taskAssignment"] = "work"
    /\ rot.pc = "idle"
    /\ workers' = [workers EXCEPT !["taskAssignment"] = "check"]
    /\ UNCHANGED <<nodeVars, porcVars, ret, isRunning, stopPc>>

(* rewardDistributionLoop: distributeRewards *)
rewardDistributionLoop ==
    /\ workers["rewardDistribution"] = "work"
    /\ distributeRewards
    /\ workers' = [workers EXCEPT !["rewardDistribution"] = "check"]
    /\ UNCHANGED <<isRunning, stopPc>>

(* poolRotationLoop: rotatePools, step by step *)
poolRotationLoop ==
    \/ /\ workers["poolRotation"] = "work"
       /\ rotateClear
       /\ workers' = [workers EXCEPT !["poolRotation"] = "rotating"]
       /\ UNCHANGED <<isRunning, stopPc>>
    \/ /\ workers["poolRotation"] = "rotating"
       /\ rotateScan \/ rotateBlockStart \/ rotatePush
       /\ workers' = [workers EXCEPT !["poolRotation"] =
                          IF rot'.pc = "idle" THEN "check" ELSE "rotating"]
       /\ UNCHANGED <<isRunning, stopPc>>

WorkerStep(w) ==
    \/ loopCheck(w)
    \/ w = "taskAssignment" /\ taskAssignmentLoop
    \/ w = "rewardDistribution" /\ rewardDistributionLoop
    \/ w = "poolRotation" /\ poolRotationLoop

NextRun ==
    \/ start
    \/ stop
    \/ stopJoin
    \/ \E w \in Workers : loopCheck(w)
    \/ taskAssignmentLoop
    \/ rewardDistributionLoop
    \/ poolRotationLoop
    \/ (\E a \in RunWallets : enablePoRC(a, TRUE)) /\ UNCHANGED runVars
    \/ (\E c \in RunContributions : submitContribution(c, TRUE)) /\ UNCHANGED runVars

(* every thread that can take a step is scheduled in the end *)
SpecRun ==
    /\ Init
    /\ [][NextRun]_vars
    /\ \A w \in Workers : WF_vars(WorkerStep(w))
    /\ WF_vars(stopJoin)

(* The node with its PoRC system running beside the ledger: blocks are
   appended through POST /mine while the three workers run.
   PoRCSystem::onBlockMined is declared and defined, and no statement of the
   sources calls it: not Blockchain::addBlock or minePendingTransactions, not
   MiningEngine::miningLoop, not main. *)
NextNode ==
    \/ start
    \/ \E w \in Workers : loopCheck(w)
    \/ taskAssignmentLoop
    \/ rewardDistributionLoop
    \/ poolRotationLoop
    \/ (\E a \in RunWallets : enablePoRC(a, TRUE)) /\ UNCHANGED runVars
    \/ (\E c \in RunContributions : submitContribution(c, TRUE)) /\ UNCHANGED runVars
    \/ \E m \in Miners : minePendingTransactions(m)

(* main starts the PoRC system, and every worker thread is scheduled in the end *)
SpecNode ==
    /\ Init
    /\ [][NextNode]_vars
    /\ WF_vars(start)
    /\ \A w \in Workers : WF_vars(WorkerStep(w))

----------------------------------------------------------------------------
(* Snapshot and restore.  The maintenance task of main.cpp saves the ledger to
   blockchain_data.json; main loads the file into the freshly constructed
   Blockchain when the process starts.  A JSON text is held as the record of
   its members; a nlohmann::json value is an object with members or a string
   with a text. *)

JsonParse(text) == [type |-> "object", members |-> text]
JsonString(text) == [type |-> "string", text |-> text]

(* Transaction::serialize; contractCode "" stands for a member left out *)
TransactionSerialize(t) ==
    [sender |-> t.sender, recipient |-> t.recipient, amount |-> t.amount,
     timestamp |-> t.timestamp, hash |-> TxCalculateHash(t), signature |-> t.signature,
     isOffline |-> t.isOffline, contractCode |-> t.contractCode, uid |-> t.uid]

(* Transaction::deserialize of the dump of a json value: j["sender"] on a
   value that is not an object throws nlohmann::json::type_error *)
TransactionDeserialize(j) ==
    IF j.type # "object" THEN [threw |-> TRUE]
    ELSE LET m == j.members
         IN [threw |-> FALSE,
             tx |-> IF m.contractCode # ""
                    THEN [NewTransaction(m.sender, "CONTRACT", 0, FALSE, m.timestamp, m.uid)
                              EXCEPT !.contractCode = m.contractCode,
                                     !.signature = m.signature]
                    ELSE [NewTransaction(m.sender, m.recipient, m.amount, m.isOffline,
                                         m.timestamp, m.uid)
                              EXCEPT !.signature = m.signature]]

(* Block::serialize: tx_array.push_back(tx.serialize()) pushes a std::string,
   so every element of "transactions" is a JSON string *)
BlockSerialize(b) ==
    [index |-> b.index, timestamp |-> b.timestamp, previousHash |-> b.previousHash,
     hash |-> b.hash, nonce |-> b.nonce, merkleRoot |-> b.merkleRoot,
     validator |-> b.validator, signature |-> b.signature,
     transactions |-> [i \in 1..Len(b.transactions) |->
                           JsonString(TransactionSerialize(b.transactions[i]))]]

(* Block::deserialize *)
BlockDeserialize(j) ==
    LET m == j.members
        txs == [i \in 1..Len(m.transactions) |-> TransactionDeserialize(m.transactions[i])]
    IN IF \E i \in 1..Len(txs) : txs[i].threw THEN [threw |-> TRUE]
       ELSE [threw |-> FALSE,
             block |-> [NewBlock(m.index, m.previousHash, clock) EXCEPT
                            !.timestamp = m.timestamp, !.hash = m.hash, !.nonce = m.nonce,
                            !.merkleRoot = m.merkleRoot, !.validator = m.validator,
                            !.signature = m.signature,
                            !.transactions = [i \in 1..Len(txs) |-> txs[i].tx]]]

(* the document Blockchain::saveToFile writes *)
Snapshot ==
    [blocks |-> [i \in 1..Len(chain) |-> JsonParse(BlockSerialize(chain[i]))],
     balances |-> balances,
     pendingTransactions |-> [i \in 1..Len(pendingTransactions) |->
                                  JsonParse(TransactionSerialize(pendingTransactions[i]))],
     validators |-> validators,
     difficulty |-> difficulty,
     miningReward |-> miningReward]

(* the elements a loop of loadFromFile has pushed when it ends or throws *)
RECURSIVE LoadBlocks(_, _)
LoadBlocks(js, done) ==
    IF js = <<>> THEN [threw |-> FALSE, loaded |-> done]
    ELSE LET r == BlockDeserialize(Head(js))
         IN IF r.threw THEN [threw |-> TRUE, loaded |-> done]
            ELSE LoadBlocks(Tail(js), Append(done, r.block))

RECURSIVE LoadTransactions(_, _)
LoadTransactions(js, done) ==
    IF js = <<>> THEN [threw |-> FALSE, loaded |-> done]
    ELSE LET r == TransactionDeserialize(Head(js))
         IN IF r.threw THEN [threw |-> TRUE, loaded |-> done]
            ELSE LoadTransactions(Tail(js), Append(done, r.tx))

(* the fields of a newly constructed Blockchain *)
FreshLedger ==
    [chain |-> <<GenesisBlock>>, pendingTransactions |-> <<>>,
     balances |-> ("GENESIS" :> GenesisAmount), validators |-> EmptyMap,
     difficulty |-> InitialDifficulty, miningReward |-> InitialMiningReward]

(* Blockchain::loadFromFile on the ledger l: the fields it leaves and the
   value it returns.  The four containers are cleared before the first
   element is read, and the catch block restores nothing. *)
loadFromFile(l) ==
    IF file = <<>> THEN [ledger |-> l, ok |-> FALSE]
    ELSE LET doc == file[1]
             cleared == [l EXCEPT !.chain = <<>>, !.pendingTransactions = <<>>,
                                  !.balances = EmptyMap, !.validators = EmptyMap]
             blocks == LoadBlocks(doc.blocks, <<>>)
             pending == LoadTransactions(doc.pendingTransactions, <<>>)
         IN IF blocks.threw
            THEN [ledger |-> [cleared EXCEPT !.chain = blocks.loaded], ok |-> FALSE]
            ELSE IF pending.threw
            THEN [ledger |-> [cleared EXCEPT !.chain = blocks.loaded,
                                             !.balances = doc.balances,
                                             !.pendingTransactions = pending.loaded],
                  ok |-> FALSE]
            ELSE [ledger |-> [chain |-> blocks.loaded, pendingTransactions |-> pending.loaded,
                              balances |-> doc.balances, validators |-> doc.validators,
                              difficulty |-> doc.difficulty,
                              miningReward |-> doc.miningReward],
                  ok |-> TRUE]

(* blockchainMaintenanceTask: Blockchain::saveToFile; the file may fail to open *)
saveToFile(opened) ==
    /\ ~crashed
    /\ file' = IF opened THEN <<Snapshot>> ELSE file
    /\ ret' = <<"saveToFile", opened>>
    /\ UNCHANGED <<ledgerVars, clock, nextUid, posBlock, engineVars, stakeCalls, fastConfirmed,
                   improvedVars, retargetVars, porcVars, runVars, shutdownVars, crashed>>

(* the process ends and main runs again: a new Blockchain, then
   loadFromFile("blockchain_data.json") *)
Restart ==
    LET r == loadFromFile(FreshLedger)
    IN /\ chain' = r.ledger.chain
       /\ pendingTransactions' = r.ledger.pendingTransactions
       /\ balances' = r.ledger.balances
       /\ validators' = r.ledger.validators
       /\ difficulty' = r.ledger.difficulty
       /\ miningReward' = r.ledger.miningReward
       /\ contracts' = EmptyMap
       /\ ret' = <<"loadFromFile", r.ok>>
       /\ posBlock' = <<>>
       /\ engPc' = "idle" /\ engIndex' = 0 /\ engBlock' = <<>> /\ queue' = <<>>
       /\ fastConfirmed' = <<>>
       /\ crashed' = FALSE
       /\ UNCHANGED <<clock, nextUid, stakeCalls, improvedVars, retargetVars, porcVars, runVars,
                    shutdownVars, file>>

(* the blocks chain.back() can yield on an empty vector: index and hash of
   whatever lies before the buffer *)
GarbageTips == {[index |-> 0, hash |-> <<>>], [index |-> SentinelIndex, hash |-> <<"0">>]}

(* POST /mine while the chain is empty: getLatestBlock returns chain.back() of
   an empty vector, which is undefined.  The process dies, or the new block is
   built on the index and hash read from that memory. *)
minePendingTransactionsOnEmptyChain(miner, tip) ==
    LET draft == DrainPending(pendingTransactions,
                     BlockAddTransaction(
                         NewBlock((tip.index + 1) % Uint64Modulus, tip.hash, clock),
                         NewTransaction("COINBASE", miner, miningReward, FALSE, clock, 0)),
                     0)
    IN /\ ~crashed
       /\ chain = <<>>
       /\ Len(pendingTransactions) + clock + stakeCalls < MaxOps
       /\ \/ /\ crashed' = TRUE
             /\ UNCHANGED <<ledgerVars, ret>>
          \/ /\ CanMine(draft.block, difficulty)
             /\ LET newBlock == mineBlock(draft.block, difficulty)
                    r == ProcessAll(newBlock.transactions, balances, contracts)
                IN /\ pendingTransactions' = draft.pool
                   /\ chain' = <<newBlock>>
                   /\ balances' = r.balances
                   /\ contracts' = r.contracts
             /\ ret' = <<"minePendingTransactions", TRUE>>
             /\ UNCHANGED <<difficulty, miningReward, validators, crashed>>
       /\ UNCHANGED <<clock, nextUid, posBlock, engineVars, stakeCalls, fastConfirmed,
                      improvedVars, retargetVars, porcVars, runVars, shutdownVars, file>>

NextSnapshot ==
    \/ ~crashed /\ \E s \in Senders, r \in Recipients, a \in Amounts : HandleTransaction(s, r, a)
    \/ ~crashed /\ chain # <<>> /\ \E m \in Miners : minePendingTransactions(m)
    \/ \E m \in Miners, tip \in GarbageTips : minePendingTransactionsOnEmptyChain(m, tip)
    \/ ~crashed /\ \E s \in Stakers, a \in StakeAmounts : stakeTokens(s, a)
    \/ ~crashed /\ Tick
    \/ \E opened \in BOOLEAN : saveToFile(opened)
    \/ Restart

SpecSnapshot == Init /\ [][NextSnapshot]_vars

----------------------------------------------------------------------------
(* main from the start of the PoRC system to its return.  The maintenance
   thread is already running; a signal lowers `running`, the main loop ends
   and main stops the PoRC system, stops the API server, saves the chain and
   joins the maintenance thread.  The API server hands every connection to a
   detached thread that nobody joins. *)

restVars == <<posBlock, engineVars, stakeCalls, fastConfirmed, improvedVars, retargetVars,
              porcVars, runVars, crashed>>

(* main, line 504: api.getPoRCSystem().start() *)
mainStartPoRC ==
    /\ mainPc = "startPoRC"
    /\ start

(* main, lines 504-511: start has returned; api.start(port) sets API::running
   and launches serverLoop *)
apiStart ==
    /\ mainPc = "startPoRC"
    /\ isRunning
    /\ ~apiRunning
    /\ apiRunning' = TRUE
    /\ mainPc' = "serving"
    /\ UNCHANGED <<ledgerVars, clock, nextUid, ret, restVars, file, running, clients, maint>>

(* signalHandler *)
signalHandler ==
    /\ mainPc = "serving"
    /\ running
    /\ running' = FALSE
    /\ UNCHANGED <<ledgerVars, clock, nextUid, ret, restVars, file, mainPc, apiRunning, clients,
                   maint>>

(* main, lines 518-520: while (running) sleep *)
mainLoopExit ==
    /\ mainPc = "serving"
    /\ ~running
    /\ mainPc' = "stopPoRC"
    /\ UNCHANGED <<ledgerVars, clock, nextUid, ret, restVars, file, running, apiRunning, clients,
                   maint>>

(* main, line 527: api.getPoRCSystem().stop() *)
mainStopPoRC ==
    /\ mainPc = "stopPoRC"
    /\ stop

(* main, line 529: PoRCSystem::stop has returned; api.stop() lowers
   API::running and joins serverLoop, not the threads serverLoop detached *)
apiStop ==
    /\ mainPc = "stopPoRC"
    /\ stopPc = "returned"
    /\ apiRunning' = FALSE
    /\ mainPc' = "save"
    /\ UNCHANGED <<ledgerVars, clock, nextUid, ret, restVars, file, running, clients, maint>>

(* main, lines 532-536: blockchain.saveToFile *)
mainSave(opened) ==
    /\ mainPc = "save"
    /\ file' = IF opened THEN <<Snapshot>> ELSE file
    /\ ret' = <<"saveToFile", opened>>
    /\ mainPc' = "join"
    /\ UNCHANGED <<ledgerVars, clock, nextUid, restVars, running, apiRunning, clients, maint>>

(* main, line 539: maintenance_thread.join() *)
mainJoin ==
    /\ mainPc = "join"
    /\ maint = "exited"
    /\ mainPc' = "exit"
    /\ UNCHANGED <<ledgerVars, clock, nextUid, ret, restVars, file, running, apiRunning, clients,
                   maint>>

(* blockchainMaintenanceTask: the sleep and the test of `running` *)
maintCheck ==
    /\ maint = "sleep"
    /\ maint' = IF running THEN "save" ELSE "exited"
    /\ UNCHANGED <<ledgerVars, clock, nextUid, ret, restVars, file, running, mainPc, apiRunning,
                   clients>>

(* blockchainMaintenanceTask: saveToFile *)
maintSave(opened) ==
    /\ maint = "save"
    /\ file' = IF opened THEN <<Snapshot>> ELSE file
    /\ ret' = <<"saveToFile", opened>>
    /\ maint' = "sleep"
    /\ UNCHANGED <<ledgerVars, clock, nextUid, restVars, running, mainPc, apiRunning, clients>>

(* the senders a request body of POST /transaction names *)
ClientSenders == {"COINBASE", "GENESIS"}

(* API::serverLoop: accept, then a detached thread for the connection *)
serverLoop ==
    /\ apiRunning
    /\ mainPc # "exit"
    /\ Work + clients < MaxOps
    /\ clients' = clients + 1
    /\ UNCHANGED <<ledgerVars, clock, nextUid, ret, restVars, file, running, mainPc, apiRunning,
                   maint>>

(* API::handleClient on a detached thread: POST /transaction *)
handleClient(s, r, a) ==
    /\ clients > 0
    /\ mainPc # "exit"
    /\ addTransaction(NewTransaction(s, r, a, FALSE, clock, nextUid))
    /\ clients' = clients - 1
    /\ UNCHANGED <<chain, difficulty, miningReward, balances, contracts, validators, clock,
                   restVars, file, running, mainPc, apiRunning, maint>>

NextShutdown ==
    \/ mainStartPoRC
    \/ apiStart
    \/ signalHandler
    \/ mainLoopExit
    \/ mainStopPoRC
    \/ stopJoin
    \/ apiStop
    \/ \E opened \in BOOLEAN : mainSave(opened)
    \/ mainJoin
    \/ maintCheck
    \/ \E opened \in BOOLEAN : maintSave(opened)
    \/ \E w \in Workers : loopCheck(w)
    \/ taskAssignmentLoop
    \/ rewardDistributionLoop
    \/ poolRotationLoop
    \/ serverLoop
    \/ \E s \in ClientSenders, r \in Recipients, a \in Amounts : handleClient(s, r, a)

SpecShutdown == Init /\ [][NextShutdown]_vars

----------------------------------------------------------------------------
(* Blockchain::minePendingTransactions on a thread of its own, beside the
   requests of other connections.  The call takes chainMutex and txMutex in
   its first two statements and holds both until it returns, the nonce loop of
   Block::mineBlock included. *)

lockRest == <<difficulty, miningReward, validators, clock, nextUid, posBlock, engineVars,
              stakeCalls, fastConfirmed, fast, imp, retargetVars, porcVars, hostVars, runVars>>

(* minePendingTransactions, lines 185-209, and Block::mineBlock, lines 51-55:
   the locks, the coinbase, the drained pool, the Merkle root, nonce 0 *)
MineLock(miner) ==
    LET d == MineDraft(miner)
        b == [d.block EXCEPT !.merkleRoot = calculateMerkleRoot(d.block.transactions)]
    IN /\ mineCall.pc = "idle"
       /\ Work < MaxOps
       /\ chainMutex = ""
       /\ txMutex = ""
       /\ CanMine(b, difficulty)
       /\ chainMutex' = "miner"
       /\ txMutex' = "miner"
       /\ pendingTransactions' = d.pool
       /\ mineCall' = [pc |-> "search", block |-> <<WithNonce(b, 0)>>]
       /\ UNCHANGED <<chain, balances, contracts, ret, lockRest>>

(* Block::mineBlock, lines 56-59: one more nonce *)
MineAttempt ==
    /\ mineCall.pc = "search"
    /\ ~HasPrefix(mineCall.block[1].hash, difficulty)
    /\ mineCall' = [mineCall EXCEPT
                        !.block = <<WithNonce(mineCall.block[1], mineCall.block[1].nonce + 1)>>]
    /\ UNCHANGED <<chain, pendingTransactions, balances, contracts, ret, chainMutex, txMutex,
                   lockRest>>

(* minePendingTransactions, lines 216-226: the block is pushed, its
   transactions are processed, the call returns and the locks are released *)
MineCommit ==
    /\ mineCall.pc = "search"
    /\ HasPrefix(mineCall.block[1].hash, difficulty)
    /\ LET r == ProcessAll(mineCall.block[1].transactions, balances, contracts)
       IN /\ chain' = Append(chain, mineCall.block[1])
          /\ balances' = r.balances
          /\ contracts' = r.contracts
    /\ chainMutex' = ""
    /\ txMutex' = ""
    /\ mineCall' = [pc |-> "idle", block |-> <<>>]
    /\ ret' = <<"minePendingTransactions", TRUE>>
    /\ UNCHANGED <<pendingTransactions, lockRest>>

(* GET /balance on its own thread: Blockchain::getBalance takes no lock *)
HandleBalance(address) ==
    /\ ret' = <<"getBalance", getBalance(address)>>
    /\ UNCHANGED <<ledgerVars, clock, nextUid, posBlock, engineVars, stakeCalls, fastConfirmed,
                   sideVars>>

(* the maintenance thread: saveToFile waits for chainMutex *)
LockedSaveToFile(opened) ==
    /\ chainMutex = ""
    /\ saveToFile(opened)

NextMining ==
    \/ \E m \in Miners : MineLock(m)
    \/ MineAttempt
    \/ MineCommit
    \/ \E s \in Senders, r \in Recipients, a \in Amounts : LockedHandleTransaction(s, r, a)
    \/ \E a \in Senders : HandleBalance(a)
    \/ \E opened \in BOOLEAN : LockedSaveToFile(opened)
    \/ Tick

SpecMining == Init /\ [][NextMining]_vars

----------------------------------------------------------------------------
(* Properties *)

Addresses == {"GENESIS", "ALICE", "MINER", ""}

IsEngineBlock(b) == b.index > 0 /\ b.validator = "" /\ b.merkleRoot = <<>>

IsMinedBlock(b) == b.index > 0 /\ b.validator = "" /\ b.merkleRoot # <<>>

(* C1: every block after the first has the index of its predecessor plus one and
   carries the stored hash of its predecessor as previousHash *)
ChainContinuity ==
    \A i \in 2..Len(chain) :
        /\ chain[i].index = chain[i - 1].index + 1
        /\ chain[i].previousHash = chain[i - 1].hash

(* a chain grown by both /mine and the mining loop *)
ChainContinuityWitness ==
    /\ Len(chain) >= 3
    /\ \E i \in 2..Len(chain) : IsEngineBlock(chain[i])
    /\ \E i \in 2..Len(chain) : IsMinedBlock(chain[i])

(* the three conditions under which the claim C5 says addBlock refuses a block *)
Rejectable(b) ==
    \/ b.previousHash # chain[Len(chain)].hash
    \/ b.index # chain[Len(chain)].index + 1
    \/ LeadingZeros(b.hash) < difficulty

(* C5: addBlock(b) returns false and leaves the chain, balances, stakes, contracts
   and pending pool as they were whenever b names another previous hash than the
   tip's, another index than the tip's plus one, or has a hash with fewer than
   difficulty leading zeros *)
AddBlockRejects ==
    [][((ValidateAdd /\ Rejectable(posBlock[1])) \/ (EngineSubmit /\ Rejectable(engBlock[1])))
          => /\ ret' = <<"addBlock", FALSE>>
             /\ UNCHANGED <<chain, balances, validators, contracts, pendingTransactions>>]_vars

(* addBlock has refused the mining loop's block, built on a tip that /mine has
   since replaced *)
AddBlockRejectsWitness ==
    /\ ret = <<"addBlock", FALSE>>
    /\ validators = EmptyMap
    /\ engPc = "idle"
    /\ Len(chain) = 2

(* C8: admitting a transaction of a non-COINBASE sender whose balance is below
   the amount, or who has no balance entry, returns false and leaves the size of
   the pending pool and all balances as they were *)
UnderfundedRejected ==
    [][\A s \in (Senders \cup ApiSenders) \ {"COINBASE"}, r \in Recipients, a \in Amounts :
          ((s \notin DOMAIN balances \/ balances[s] < a)
              /\ (HandleTransaction(s, r, a) \/ ApiTransaction(s, r, a) \/ OderoCreate(s, a)))
          => /\ ret' = <<"addTransaction", FALSE>>
             /\ Len(pendingTransactions') = Len(pendingTransactions)
             /\ balances' = balances]_vars

(* GENESIS has spent below the request amount and an admission has been refused *)
UnderfundedRejectedWitness ==
    /\ ret = <<"addTransaction", FALSE>>
    /\ "GENESIS" \in DOMAIN balances
    /\ \E a \in Amounts : balances["GENESIS"] < a
    /\ "ALICE" \in DOMAIN balances

(* C9: every block after the genesis block that no validator sealed has a hash
   with difficulty leading zeros *)
PowSealed ==
    \A i \in 2..Len(chain) :
        chain[i].validator = "" => LeadingZeros(chain[i].hash) >= difficulty

(* the chain holds a block of /mine and a block of the mining loop, each found
   after a nonce search *)
PowSealedWitness ==
    /\ \E i \in 2..Len(chain) : IsMinedBlock(chain[i]) /\ chain[i].nonce > 0
    /\ \E i \in 2..Len(chain) : IsEngineBlock(chain[i]) /\ chain[i].nonce > 0

RECURSIVE SumCredits(_, _)
SumCredits(txs, a) ==
    IF txs = <<>> THEN 0
    ELSE (IF Head(txs).recipient = a THEN Head(txs).amount ELSE 0) + SumCredits(Tail(txs), a)

RECURSIVE SumDebits(_, _)
SumDebits(txs, a) ==
    IF txs = <<>> THEN 0
    ELSE (IF Head(txs).sender = a THEN Head(txs).amount ELSE 0) + SumDebits(Tail(txs), a)

RECURSIVE ChainTransactions(_)
ChainTransactions(blocks) ==
    IF blocks = <<>> THEN <<>>
    ELSE Head(blocks).transactions \o ChainTransactions(Tail(blocks))

Staked(a) == IF a \in DOMAIN validators THEN validators[a] ELSE 0

(* C2: the balance of every address is the sum of the amounts credited to it by
   the transactions stored in the chain and the fast-confirmed ones, less the sum
   of the amounts they debit from it, less the amount it moved into stake *)
BalanceConservation ==
    \A a \in Addresses :
        getBalance(a) = SumCredits(ChainTransactions(chain) \o fastConfirmed, a)
                            - SumDebits(ChainTransactions(chain) \o fastConfirmed, a)
                            - Staked(a)

RECURSIVE Overdraws(_, _, _)
Overdraws(txs, bal, con) ==
    IF txs = <<>> THEN FALSE
    ELSE \/ /\ Head(txs).sender # "COINBASE"
            /\ (IF Head(txs).sender \in DOMAIN bal THEN bal[Head(txs).sender] ELSE 0)
                   < Head(txs).amount
         \/ Overdraws(Tail(txs), processTransaction(Head(txs), bal, con).balances, con)

(* C4: addBlock returns false and pushes nothing when a transaction of the block,
   applied in order after the earlier ones, would take a non-COINBASE sender's
   balance below zero *)
OverdrawingBlockRejected ==
    [][((ValidateAdd /\ Overdraws(posBlock[1].transactions, balances, contracts))
           \/ (EngineSubmit /\ Overdraws(engBlock[1].transactions, balances, contracts)))
          => /\ ret' = <<"addBlock", FALSE>>
             /\ chain' = chain]_vars

(* C6: a transaction admitted to the pool is stored in at most one block of the
   chain, at one position, and a fast-confirmed transaction is stored in none *)
AtMostOneBlock ==
    /\ \A i, j \in 1..Len(chain) :
           \A k \in 1..Len(chain[i].transactions), l \in 1..Len(chain[j].transactions) :
               (chain[i].transactions[k].uid # 0
                   /\ chain[i].transactions[k].uid = chain[j].transactions[l].uid)
               => (i = j /\ k = l)
    /\ \A f \in 1..Len(fastConfirmed), i \in 1..Len(chain) :
           \A k \in 1..Len(chain[i].transactions) :
               chain[i].transactions[k].uid # fastConfirmed[f].uid

(* C3: no address has a balance below zero *)
NonNegativeBalances ==
    \A a \in DOMAIN balances : balances[a] >= 0

(* C7: no two transactions of the pending pool have the same content hash *)
NoDuplicatePending ==
    \A i, j \in 1..Len(pendingTransactions) :
        i # j => TxCalculateHash(pendingTransactions[i]) # TxCalculateHash(pendingTransactions[j])

(* C10: a block holds at most one transaction sent by COINBASE, and that
   transaction is the first of the block *)
CoinbaseFirstOnly ==
    \A i \in 1..Len(chain) :
        \A k \in 1..Len(chain[i].transactions) :
            chain[i].transactions[k].sender = "COINBASE" => k = 1

(* the transactions of a sequence that COINBASE did not send are in order of
   non-increasing fee, equal fees in order of non-decreasing timestamp *)
FeeOrdered(txs) ==
    \A i, j \in 1..Len(txs) :
        (i < j /\ txs[i].sender # "COINBASE" /\ txs[j].sender # "COINBASE") =>
            \/ calculateDynamicFee(txs[i]) > calculateDynamicFee(txs[j])
            \/ /\ calculateDynamicFee(txs[i]) = calculateDynamicFee(txs[j])
               /\ txs[i].timestamp <= txs[j].timestamp

(* C11: the transactions selected for a block, COINBASE's aside, are in order
   of non-increasing fee, ties in order of non-decreasing timestamp *)
SelectionFeeOrdered ==
    \A i \in 1..Len(chain) : IsMinedBlock(chain[i]) => FeeOrdered(chain[i].transactions)

(* C12: a transaction the instant confirmation has applied is in no block of
   the chain *)
FastConfirmedInNoBlock ==
    \A k \in 1..Len(fastConfirmed) :
        \A i \in 1..Len(chain) :
            \A j \in 1..Len(chain[i].transactions) :
                chain[i].transactions[j].uid # fastConfirmed[k].uid

(* C13: the balance check and the debit of a fast transfer are one step, so
   the debit never leaves its sender below zero, whatever runs concurrently *)
FastDebitNeverOverdraws ==
    \A t \in Handlers :
        fast[t].pc = "debited" => getBalance(fast[t].tx[1].sender) >= 0

(* C14: no thread waits for a lock that it holds itself *)
NoSelfDeadlock ==
    ~(imp.pc = "blocked" /\ chainMutex = "producer")

(* C15: the difficulty of the mining engine lies between the configured
   minimum and maximum *)
DifficultyInRange ==
    config.minDifficulty <= currentDifficulty /\ currentDifficulty <= config.maxDifficulty

(* C16: a block the engine has mined leaves the difficulty at the value the
   retarget rule gives for the recorded block times: one up (at most the
   maximum) when their average is below 0.8 of the target block time, one
   down (at least the minimum) when above 1.2, unchanged otherwise *)
RetargetFollowsRecordedTimes ==
    [][\A m \in Miners, t \in MiningTimes, k \in Attempts :
          (EngineMineBlock(m, t, k) /\ engBlock'[1].index # SentinelIndex) =>
              currentDifficulty' =
                  calculateNewDifficulty(stats'.recentBlockTimes, currentDifficulty, config)]_vars

(* C17: mineBlock with the stop flag up, or with its attempts used up, returns
   the sentinel block, and the sentinel block changes nothing when miningLoop
   hands it to addBlock *)
CancelledAttemptLeavesLedger ==
    [][/\ \A m \in Miners, t \in MiningTimes, k \in Attempts :
             (EngineMineBlock(m, t, k) /\ shouldStop) =>
                 /\ engBlock' = <<SentinelBlock>>
                 /\ UNCHANGED ledgerVars
       /\ \A m \in Miners, t \in MiningTimes :
             (EngineMineBlock(m, t, 1) /\ \A p \in SortedByAmount(pendingTransactions) :
                                             ~HasPrefix(updateHash(setNonce(EngineDraft(m, p), 0)).hash,
                                                        difficulty)) =>
                 /\ engBlock' = <<SentinelBlock>>
                 /\ UNCHANGED ledgerVars
       /\ (EngineSubmit /\ engBlock[1].index = SentinelIndex) =>
             /\ ret' = <<"addBlock", FALSE>>
             /\ UNCHANGED ledgerVars]_vars

(* a cancelled attempt has gone through miningLoop: the sentinel block was
   handed to addBlock and refused *)
CancelledAttemptLeavesLedgerWitness ==
    /\ shouldStop
    /\ engPc = "idle"
    /\ ret = <<"addBlock", FALSE>>
    /\ Len(chain) = 1

(* the rewards a step adds to the wallets, in micro units *)
PaidInStep ==
    LET RECURSIVE Sum(_)
        Sum(ws) == IF ws = {} THEN 0
                   ELSE LET w == CHOOSE x \in ws : TRUE
                        IN (walletStatuses'[w].totalRewards - walletStatuses[w].totalRewards)
                           + Sum(ws \ {w})
    IN Sum(DOMAIN walletStatuses)

(* C18: a reward tick pays the wallets together no more than the block reward,
   and leaves the block reward in stats.currentBlockReward *)
TickWithinBlockReward ==
    [][(distributeRewards /\ SumPoints(pendingContributions, "") > 0) =>
          /\ PaidInStep <= BlockRewardMicro
          /\ porcStats'.currentBlockReward = BlockRewardMicro]_vars

(* C19: a reward tick adds to every wallet with points its share of the block
   reward, times 1.5 for an early adopter, capped, in micro units, and adds
   its points to its total *)
TickPaysEveryContributor ==
    [][(distributeRewards /\ SumPoints(pendingContributions, "") > 0) =>
          \A w \in PoRCWallets :
              SumPoints(pendingContributions, w) > 0 =>
                  /\ w \in DOMAIN walletStatuses'
                  /\ w \in DOMAIN walletStatuses
                  /\ walletStatuses'[w].totalRewards =
                         walletStatuses[w].totalRewards
                         + ToMicro(calculateReward(walletStatuses[w].isEarlyAdopter,
                                                   SumPoints(pendingContributions, w),
                                                   SumPoints(pendingContributions, "")))
                  /\ walletStatuses'[w].totalResourcePoints =
                         walletStatuses[w].totalResourcePoints
                         + SumPoints(pendingContributions, w)]_vars

PoolsOf(w) == {k \in 1..Len(pools) :
                  \E i \in 1..Len(pools[k].walletAddresses) : pools[k].walletAddresses[i] = w}

PoolsMatchWallets ==
    /\ \A w \in PoRCWallets :
           Cardinality(PoolsOf(w)) = IF IsEnabledWallet(w) THEN 1 ELSE 0
    /\ \A k \in 1..Len(pools) :
           /\ Len(pools[k].walletAddresses) <= POOL_SIZE
           /\ pools[k].isActive
           /\ pools[k].blockStart = currentBlockHeight
           /\ pools[k].blockEnd = currentBlockHeight + POOL_ROTATION_BLOCKS

(* C20: when rotatePools returns, every enabled wallet is in exactly one pool,
   no other wallet is in a pool, no pool has more than POOL_SIZE wallets, and
   every pool is active from the current height to POOL_ROTATION_BLOCKS
   blocks later *)
PoolsAfterRotation ==
    [][(rot.pc # "idle" /\ rot'.pc = "idle") => PoolsMatchWallets']_vars

(* C21: restoring the snapshot of the ledger yields its chain, balances,
   pending pool and stakes again, value by value *)
SnapshotRestoreRoundTrip ==
    [][(Restart /\ file = <<Snapshot>>) =>
          /\ chain' = chain
          /\ balances' = balances
          /\ pendingTransactions' = pendingTransactions
          /\ validators' = validators]_vars

(* C22: the chain holds at least one block in every state, whatever the
   operations served, a restore that succeeds or fails included *)
ChainNeverEmpty == Len(chain) >= 1

HasStake(v) == v \in DOMAIN validators /\ validators[v] > 0

(* C23: a block sealed by a validator with a positive stake is appended to the
   tip it was built on whatever its hash, and a /validate call naming an
   address without a positive stake is refused and changes nothing *)
PosSealedBlockAppended ==
    [][/\ (/\ ValidateAdd
           /\ HasStake(posBlock[1].validator)
           /\ posBlock[1].previousHash = getLatestBlock.hash
           /\ posBlock[1].index = getLatestBlock.index + 1)
          => chain' = Append(chain, posBlock[1])
       /\ \A v \in Stakers, g \in Signatures :
              (ValidateBegin(v, g) /\ ~HasStake(v))
                  => /\ ret' = <<"validateBlockPoS", FALSE>>
                     /\ UNCHANGED <<ledgerVars, posBlock>>]_vars

AmountAt(m, a) == IF a \in DOMAIN m THEN m[a] ELSE 0

(* C24: a stake call either fails and leaves balances and stakes alone, or
   moves the amount from the balance of the address to its stake; the sum of
   the two never changes, no other address is touched, and neither goes below
   zero whatever the amount *)
StakeMovesValue ==
    [][\A a \in Stakers, x \in StakeAmounts :
          stakeTokens(a, x) =>
              /\ IF AmountAt(balances, a) < x
                 THEN UNCHANGED <<balances, validators>>
                 ELSE /\ AmountAt(balances', a) = AmountAt(balances, a) - x
                      /\ AmountAt(validators', a) = AmountAt(validators, a) + x
              /\ AmountAt(balances', a) + AmountAt(validators', a)
                     = AmountAt(balances, a) + AmountAt(validators, a)
              /\ \A b \in Addresses \ {a} :
                     /\ AmountAt(balances', b) = AmountAt(balances, b)
                     /\ AmountAt(validators', b) = AmountAt(validators, b)
              /\ AmountAt(balances', a) >= 0
              /\ AmountAt(validators', a) >= 0]_vars

(* C25: once stop has lowered the flag of a running system, the three workers
   leave their loops and stop returns; when stop has returned every worker has
   left its loop, so no worker generates tasks, pays rewards or rotates pools
   any more *)
StopEndsWorkers ==
    /\ (stopPc = JoinOrder[1]) ~> (stopPc = "returned")
    /\ [](stopPc = "returned" => \A w \in Workers : workers[w] = "exited")

(* stop has returned after the reward worker paid a tick and the rotation
   worker built a pool *)
StopEndsWorkersWitness ==
    /\ stopPc = "returned"
    /\ \A w \in Workers : workers[w] = "exited"
    /\ porcStats.totalRewardsDistributed > 0
    /\ pools # <<>>


(* C26: after a signal main shuts down in the order: flag lowered, API server
   stopped, PoRC system stopped, final save, join.  So the PoRC system is
   stopped only once the flag is down and the API server has stopped, the API
   server is stopped while the PoRC system still runs, and the final save is
   made once the API server and the PoRC system have stopped and no thread is
   left that can write to the ledger. *)
ShutdownOrder ==
    [][/\ (stopPc = "idle" /\ stopPc' # "idle") => (~running /\ ~apiRunning)
       /\ (apiRunning /\ ~apiRunning') => (~running /\ stopPc = "idle" /\ isRunning)
       /\ (mainPc = "save" /\ mainPc' = "join") =>
              (~apiRunning /\ stopPc = "returned" /\ clients = 0)]_vars

InPool(tx, pool) == \E j \in 1..Len(pool) : pool[j] = tx

(* C27: when a round of the mining engine has appended its block, no
   transaction of that block is left in the pending pool, and when a call of
   the improved engine ends, no transaction it fast-confirmed is left in the
   pending pool, whether or not its block was appended. *)
MinedLeavePool ==
    [][/\ (EngineSubmit /\ AddBlockAccepts(engBlock[1])) =>
              \A i \in 1..Len(engBlock[1].transactions) :
                  ~InPool(engBlock[1].transactions[i], pendingTransactions')
       /\ (ImprovedAddBlock /\ imp'.pc = "idle") =>
              \A i \in 1..Len(fastConfirmed') :
                  ~InPool(fastConfirmed'[i], pendingTransactions')]_vars

(* C28: every block appended to the chain is followed by the PoRC system
   taking the height of that block as its current height (the block-mined
   event, which then rotates the pools at a multiple of POOL_ROTATION_BLOCKS
   and distributes the rewards). *)
AppendReachesPoRC ==
    \A h \in 1..MaxOps : (Len(chain) = h + 1) ~> (currentBlockHeight = h)

(* C29: after every call of distributeRewards by the reward worker the list
   of pending contributions is empty, whatever it held, contributions worth no resource
   point included. *)
TickClearsPending ==
    [][rewardDistributionLoop => pendingContributions' = <<>>]_vars

RECURSIVE SumTotalRewards(_)
SumTotalRewards(ws) ==
    IF ws = {} THEN 0
    ELSE LET w == CHOOSE x \in ws : TRUE
         IN walletStatuses[w].totalRewards + SumTotalRewards(ws \ {w})

(* C30: what a reward tick does not pay of the block reward it adds to
   stats.totalBurned, so that after any number of ticks the rewards of all
   wallets plus stats.totalBurned equal stats.totalRewardsDistributed. *)
RewardBudgetConserved ==
    SumTotalRewards(DOMAIN walletStatuses) + porcStats.totalBurned
        = porcStats.totalRewardsDistributed

(* C31: chain, balances, stakes and contracts are read and written only by
   the thread that holds chainMutex, so the balance check of an admission
   never runs while another thread holds chainMutex. *)
LedgerAccessLocked ==
    [][(\E s \in Senders, r \in Recipients, a \in SmallAmounts :
            LockedHandleTransaction(s, r, a)) => chainMutex = ""]_vars

(* C32: while the nonce search of a block is under way the thread that runs
   it holds neither chainMutex nor txMutex, so that admissions, balance reads
   and saves issued meanwhile need not wait for the search to end. *)
NonceSearchUnlocked ==
    mineCall.pc = "search" => (chainMutex = "" /\ txMutex = "")

(* the transactions an address has sent that are in a block of the chain *)
RECURSIVE SentIn(_, _)
SentIn(txs, a) ==
    IF txs = <<>> THEN 0
    ELSE (IF Head(txs).sender = a THEN 1 ELSE 0) + SentIn(Tail(txs), a)

RECURSIVE Activity(_, _)
Activity(blocks, a) ==
    IF blocks = <<>> THEN 0
    ELSE SentIn(Head(blocks).transactions, a) + Activity(Tail(blocks), a)

(* C33: enablePoRC returns true only for a wallet that passes the eligibility
   check (balance >= MIN_BALANCE, activity >= MIN_ACTIVITY); it then records
   poolIndex and isEarlyAdopter from the count before the increment and adds
   one to the count; when it returns false no status is created and the count
   is unchanged. *)
EnableChecksEligibility ==
    [][\A a \in PoRCWallets, saved \in BOOLEAN :
           enablePoRC(a, saved) =>
               IF ret'[2]
               THEN /\ validateWalletEligibility(a, getBalance(a) \div Coin, Activity(chain, a))
                    /\ walletStatuses'[a].poolIndex = totalWalletsRegistered % POOL_SIZE
                    /\ walletStatuses'[a].isEarlyAdopter
                           = (totalWalletsRegistered < EARLY_ADOPTER_LIMIT)
                    /\ totalWalletsRegistered' = totalWalletsRegistered + 1
               ELSE /\ walletStatuses' = walletStatuses
                    /\ totalWalletsRegistered' = totalWalletsRegistered]_vars

History(st) ==
    <<st.totalResourcePoints, st.totalRewards, st.isEarlyAdopter, st.poolIndex>>

(* C34: a wallet status, once created, keeps its history (total resource
   points, total rewards, early-adopter flag, pool index) through disablePoRC,
   which clears isEnabled only, and through any later enablePoRC of the same
   address, and totalWalletsRegistered counts every address once. *)
StatusPersists ==
    [][\A a \in PoRCWallets :
           ((\E saved \in BOOLEAN : enablePoRC(a, saved)) \/ disablePoRC(a)) =>
               /\ \A w \in DOMAIN walletStatuses :
                      /\ w \in DOMAIN walletStatuses'
                      /\ History(walletStatuses'[w]) = History(walletStatuses[w])
               /\ totalWalletsRegistered' = Cardinality(DOMAIN walletStatuses')]_vars

(* C35: submitContribution accepts a contribution, that is returns true or
   adds it to pendingContributions, only if its wallet is enabled at that
   moment, its task id is not empty and bandwidthUsed > 0 or
   transactionsRelayed > 0; a contribution of an unknown or disabled wallet
   never enters pendingContributions. *)
SubmitRequiresEnabled ==
    [][\A c \in Contributions, saved \in BOOLEAN :
           (submitContribution(c, saved)
                /\ (ret'[2] \/ Len(pendingContributions') > Len(pendingContributions))) =>
               /\ c.walletAddress \in DOMAIN walletStatuses
               /\ walletStatuses[c.walletAddress].isEnabled
               /\ c.taskId # ""
               /\ (c.bandwidthUsed > 0 \/ c.transactionsRelayed > 0)]_vars

(* C36: when mining is invoked again and again and admissions have ceased,
   every transaction in the pending pool is removed from it in the end, so
   the pool becomes empty. *)
PoolDrains ==
    (pendingTransactions # <<>>) ~> (pendingTransactions = <<>>)

(* C37: a loadFromFile that returns false leaves the chain, the balances, the
   pending pool, the validators, the difficulty and the mining reward as the
   constructor made them, so the node continues with its genesis ledger *)
FailedLoadKeepsLedger ==
    [][(Restart /\ ~loadFromFile(FreshLedger).ok) =>
          /\ chain' = FreshLedger.chain
          /\ balances' = FreshLedger.balances
          /\ pendingTransactions' = FreshLedger.pendingTransactions
          /\ validators' = FreshLedger.validators
          /\ difficulty' = FreshLedger.difficulty
          /\ miningReward' = FreshLedger.miningReward]_vars

OneBlockPerIndex ==
    \A i, j \in 1..Len(chain) : i # j => chain[i].index # chain[j].index

(* C38: of two blocks built on the same tip and handed to addBlock at most
   one is appended: whatever the interleaving with minePendingTransactions,
   the chain never holds two blocks with the same index, and a block that
   addBlock refuses changes neither the chain nor a balance *)
SameTipOneAccepted ==
    [][/\ OneBlockPerIndex'
       /\ ((EngineSubmit \/ ValidateAdd) /\ ret' = <<"addBlock", FALSE>>)
              => (chain' = chain /\ balances' = balances)]_vars

(* the engine holds a mined block for the index and previous hash of the
   block another producer has meanwhile appended *)
SameTipOneAcceptedWitness ==
    /\ engBlock # <<>>
    /\ Len(chain) >= 2
    /\ engBlock[1].index = chain[Len(chain)].index
    /\ engBlock[1].previousHash = chain[Len(chain)].previousHash

(* C39: an engine has at most one mining thread at any time *)
OneMiningThread == loops <= 1

(* C40: a submitContribution that returns false, because the contribution is
   invalid or because it could not be saved, leaves pendingContributions as it
   was, so the contribution is counted at no later distribution *)
FailedSubmitNotPending ==
    [][\A c \in Contributions, saved \in BOOLEAN :
           (submitContribution(c, saved) /\ ret' = <<"submitContribution", FALSE>>) =>
               pendingContributions' = pendingContributions]_vars

====
